---- MODULE Spec2Model ----
(***************************************************************************)
(* Font & Direction Changer: the settings store, the popup editor, the     *)
(* settings manager, the service-worker dispatcher and the per-page style  *)
(* injector (content.js), modelled as state machines.                      *)
(*                                                                         *)
(* JavaScript values are records [t, s, n]:                                *)
(*   t = "str"    a string whose text s is not the text of a number        *)
(*   t = "numstr" a string that is the decimal text of n / Scale           *)
(*   t = "num"    a number, n / Scale (only JSON import produces these)    *)
(*   t = "null", t = "undef"                                               *)
(***************************************************************************)
EXTENDS Integers, Sequences, FiniteSets, TLC

\* ------------------------------------------------------------------------
\* JavaScript values
\* ------------------------------------------------------------------------

\* Numbers are kept in thousandths, so that toFixed(2) and Math.round act.
Scale == 1000

Str(s) == [t |-> "str", s |-> s, n |-> 0]

NumStr(n) == [t |-> "numstr", s |-> "", n |-> n]

Num(n) == [t |-> "num", s |-> "", n |-> n]

Null == [t |-> "null", s |-> "", n |-> 0]

Undef == [t |-> "undef", s |-> "", n |-> 0]

Empty == Str("")

\* JavaScript truthiness: "", null, undefined and 0 are falsy; "0" is truthy.
Truthy(v) ==
  CASE v.t = "str" -> v.s # ""
    [] v.t = "numstr" -> TRUE
    [] v.t = "num" -> v.n # 0
    [] OTHER -> FALSE

\* Whether a method of String (trim, replace) can be called on the value.
IsString(v) == v.t \in {"str", "numstr"}

\* Template interpolation `${v}`: a number and its decimal text read the same.
ToText(v) == IF v.t = "num" THEN NumStr(v.n) ELSE v

\* ------------------------------------------------------------------------
\* Tuples: the seven override fields
\* ------------------------------------------------------------------------

Tuple(f, d, fs, lh, fw, ls, ws) ==
  [font |-> f, direction |-> d, fontSize |-> fs, lineHeight |-> lh,
   fontWeight |-> fw, letterSpacing |-> ls, wordSpacing |-> ws]

\* What resetPageStyles and the else-branch of the initial load leave behind.
NullTuple == Tuple(Null, Null, Null, Null, Null, Null, Null)

\* What the popup's reset button writes.
EmptyTuple == Tuple(Empty, Empty, Empty, Empty, Empty, Empty, Empty)

\* A test that takes "" for a value: only null and undefined count as empty.
AnyNotNullish(T) == \E f \in DOMAIN T : T[f].t \notin {"null", "undef"}

\* The test the injector makes before applying (content.js 354-363, 392-400).
AnyTruthy(T) ==
  \/ Truthy(T.font) \/ Truthy(T.direction) \/ Truthy(T.fontSize)
  \/ Truthy(T.lineHeight) \/ Truthy(T.fontWeight)
  \/ Truthy(T.letterSpacing) \/ Truthy(T.wordSpacing)

\* ------------------------------------------------------------------------
\* The page: its shadow hosts and the artifacts the injector leaves in it
\* ------------------------------------------------------------------------

\* Shadow hosts of the page; host 2, when present, may sit inside host 1's
\* shadow tree.
Hosts == {1, 2}

NoHost == 0 - 1

InDocument == 0

\* The pages explored: no shadow root, one open root, one root nested in
\* another.  shadowParent[h] is NoHost (absent),
\* InDocument (light tree) or the host whose shadow tree holds h.
Shapes ==
  { [h \in Hosts |-> NoHost],
    [h \in Hosts |-> IF h = 1 THEN InDocument ELSE NoHost],
    [h \in Hosts |-> IF h = 1 THEN InDocument ELSE 1] }

\* host.id || host.tagName, already lowercased and sanitized by
\* .toLowerCase().replace(/[^a-z0-9-_]/g, "-"):
\* host 1 is <div id="App.Root">, host 2 is <X-CARD> without id.
HostIdBase(h) == IF h = 1 THEN "app-root" ELSE "x-card"

\* Math.random().toString(36).substring(2, 9): two draws either agree or not.
Suffixes == {"r1", "r2"}

STYLE_OVERRIDE_TAG_ID == "font-direction-changer-style-override"

FONT_LINK_TAG_ID == "font-direction-changer-font-link"

\* ------------------------------------------------------------------------
\* content.js: style-rule synthesis
\* ------------------------------------------------------------------------

SeqIf(c, x) == IF c THEN <<x>> ELSE <<>>

Decl(prop, v) == [prop |-> prop, val |-> ToText(v)]

\* direction === "rtl" || direction === "ltr"
IsRtlOrLtr(v) == v.t = "str" /\ v.s \in {"rtl", "ltr"}

BaseElementStyles(T) ==
  SeqIf(Truthy(T.font), Decl("font-family", T.font))
  \o SeqIf(Truthy(T.fontWeight), Decl("font-weight", T.fontWeight))
  \o SeqIf(Truthy(T.fontSize), Decl("font-size", T.fontSize))
  \o SeqIf(Truthy(T.lineHeight), Decl("line-height", T.lineHeight))
  \o SeqIf(Truthy(T.letterSpacing), Decl("letter-spacing", T.letterSpacing))
  \o SeqIf(Truthy(T.wordSpacing), Decl("word-spacing", T.wordSpacing))

FormElementFontStyles(T) ==
  SeqIf(Truthy(T.font), Decl("font-family", T.font))
  \o SeqIf(Truthy(T.fontWeight), Decl("font-weight", T.fontWeight))

Rule(sel, decls) == [sel |-> sel, decls |-> decls]

\* The text of the injected <style>: a sequence of rules, <<>> for "".
CssRules(isHead, T) ==
  LET base == BaseElementStyles(T)
      form == FormElementFontStyles(T)
      textAlign == IF T.direction.s = "rtl" THEN "right" ELSE "left"
  IN  (IF base # <<>>
         THEN <<Rule(":host:not(excluded), *:not(excluded)", base)>>
              \o SeqIf(isHead, Rule("body:not(excluded)", base))
         ELSE <<>>)
      \o SeqIf(form # <<>>, Rule("input, textarea, select", form))
      \o (IF IsRtlOrLtr(T.direction)
            THEN << Rule(":host, *", <<Decl("direction", T.direction)>>),
                    Rule("text-align targets not centered",
                         <<Decl("text-align", Str(textAlign))>>) >>
            ELSE <<>>)

\* The id of the <style> element looked up and created in a root.
StyleElementId(isHead, idBase, rnd) ==
  IF isHead
    THEN [prefix |-> STYLE_OVERRIDE_TAG_ID, base |-> "document", rnd |-> ""]
    ELSE [prefix |-> STYLE_OVERRIDE_TAG_ID, base |-> idBase, rnd |-> rnd]

\* rootNode.querySelector("#id"): index of the first element with the id, 0
\* when there is none.
QuerySelectorId(styles, id) ==
  IF \E i \in 1..Len(styles) : styles[i].id = id
    THEN CHOOSE i \in 1..Len(styles) :
           /\ styles[i].id = id
           /\ \A j \in 1..(i - 1) : styles[j].id # id
    ELSE 0

RemoveAt(seq, i) == SubSeq(seq, 1, i - 1) \o SubSeq(seq, i + 1, Len(seq))

\* applyStylesToRoot on the injected <style> elements of one root, in
\* document order.
ApplyStylesToRoot(styles, isHead, idBase, rnd, T) ==
  LET id == StyleElementId(isHead, idBase, rnd)
      idx == QuerySelectorId(styles, id)
      cssRules == CssRules(isHead, T)
  IN  IF cssRules # <<>>
        THEN IF idx = 0
               THEN <<[id |-> id, text |-> cssRules]>> \o styles
               ELSE IF styles[idx].text # cssRules
                      THEN [styles EXCEPT ![idx].text = cssRules]
                      ELSE styles
        ELSE IF idx # 0 THEN RemoveAt(styles, idx) ELSE styles

\* ------------------------------------------------------------------------
\* content.js: remote font loading
\* ------------------------------------------------------------------------

SystemFonts == {"Tahoma", "Arial", "Times New Roman", "Georgia"}

\* fontName.replace(/ /g, "+") on the font names of the model.
PlusForSpace(s) ==
  CASE s = "Noto Sans Arabic" -> "Noto+Sans+Arabic"
    [] s = "Open Sans" -> "Open+Sans"
    [] s = "Times New Roman" -> "Times+New+Roman"
    [] OTHER -> s

\* variableFontsFullRange and specificWeightsFonts, "" when the font is in
\* neither table.
KnownWeightRange(s) ==
  CASE s \in {"Vazirmatn", "Noto Sans Arabic", "Montserrat"} -> "100..900"
    [] s \in {"Cairo", "Nunito"} -> "200..1000"
    [] s = "Tajawal" -> "200..900"
    [] s = "Open Sans" -> "300..800"
    [] s = "Changa" -> "200..800"
    [] s = "Roboto" -> "100;300;400;500;700;900"
    [] s = "Lato" -> "100;300;400;700;900"
    [] s = "Almarai" -> "300;400;700;800"
    [] OTHER -> ""

\* The :wght@ parameter of the request, Empty when there is none.
WeightParam(fontName, fontWeight) ==
  IF ~Truthy(fontWeight)
    THEN Empty
    ELSE IF KnownWeightRange(fontName.s) # ""
           THEN Str(KnownWeightRange(fontName.s))
           ELSE IF fontWeight.t = "numstr" THEN fontWeight ELSE Empty

GoogleFontUrl(fontName, fontWeight) ==
  [family |-> Str(PlusForSpace(fontName.s)),
   wght |-> WeightParam(fontName, fontWeight),
   display |-> "swap"]

\* A loadGoogleFont that leaves the host's SessionFlag alone when the font
\* is empty or a system font.
LoadGoogleFontKeepingFlag(links, fontName, fontWeight) ==
  LET removed == IF links # <<>> THEN Tail(links) ELSE links
  IN  IF ~Truthy(fontName) \/ (fontName.t = "str" /\ fontName.s \in SystemFonts)
        THEN [links |-> removed, session |-> "keep", threw |-> FALSE]
      ELSE IF ~IsString(fontName) \/ (Truthy(fontWeight) /\ ~IsString(fontWeight))
        THEN [links |-> removed, session |-> "keep", threw |-> TRUE]
      ELSE [links |-> Append(removed,
                             [id |-> FONT_LINK_TAG_ID,
                              href |-> GoogleFontUrl(fontName, fontWeight),
                              state |-> "loading"]),
            session |-> "keep", threw |-> FALSE]

\* loadGoogleFont on the injected <link> elements of the head, in document
\* order.  session: what it does to the host's SessionFlag at once.
\* threw: a TypeError left the function (replace or trim called on a value
\* that is no string).
LoadGoogleFont(links, fontName, fontWeight) ==
  LET removed == IF links # <<>> THEN Tail(links) ELSE links
  IN  IF ~Truthy(fontName)
        THEN [links |-> removed, session |-> "remove", threw |-> FALSE]
      ELSE IF fontName.t = "str" /\ fontName.s \in SystemFonts
        THEN [links |-> removed, session |-> "remove", threw |-> FALSE]
      ELSE IF ~IsString(fontName)
        THEN [links |-> removed, session |-> "keep", threw |-> TRUE]
      ELSE IF Truthy(fontWeight) /\ ~IsString(fontWeight)
        THEN [links |-> removed, session |-> "keep", threw |-> TRUE]
      ELSE [links |-> Append(removed,
                             [id |-> FONT_LINK_TAG_ID,
                              href |-> GoogleFontUrl(fontName, fontWeight),
                              state |-> "loading"]),
            session |-> "keep", threw |-> FALSE]

\* ------------------------------------------------------------------------
\* content.js: shadow-root discovery, apply and reset
\* ------------------------------------------------------------------------

RECURSIVE SetToSeq(_)
SetToSeq(S) ==
  IF S = {} THEN <<>>
  ELSE LET m == CHOOSE x \in S : \A y \in S : x <= y
       IN  <<m>> \o SetToSeq(S \ {m})

\* The breadth-first loop of getAllShadowRoots.  Element InDocument is
\* document.documentElement; the other elements that matter are the hosts.
RECURSIVE ShadowRootWalk(_, _, _)
ShadowRootWalk(parent, elementsToProcess, roots) ==
  IF elementsToProcess = <<>>
    THEN roots
    ELSE LET currentElement == Head(elementsToProcess)
             found == /\ currentElement \in Hosts
                      /\ parent[currentElement] # NoHost
                      /\ currentElement \notin roots
             inShadowTree ==
               IF found
                 THEN SetToSeq({h \in Hosts : parent[h] = currentElement})
                 ELSE <<>>
             children ==
               IF currentElement = InDocument
                 THEN SetToSeq({h \in Hosts : parent[h] = InDocument})
                 ELSE <<>>
         IN  ShadowRootWalk(parent,
                            Tail(elementsToProcess) \o inShadowTree \o children,
                            IF found THEN roots \cup {currentElement} ELSE roots)

\* A search that stays in the light tree: the hosts that are descendants of
\* documentElement, without those inside a shadow tree.
LightTreeShadowRoots(parent) == {h \in Hosts : parent[h] = InDocument}

\* getAllShadowRoots(document.documentElement): the hosts whose (open)
\* shadow root is found.
GetAllShadowRoots(parent) == ShadowRootWalk(parent, <<InDocument>>, {})

\* setAttribute("dir", v) stores the text of v.
DirAttrOf(v) == ToText(v)

\* What the observer (childList, subtree, on documentElement) sees of a
\* change: the font link replaced or removed, or a <style> of the head
\* inserted, rewritten or removed.  Shadow trees and attributes are not seen.
ObservedChange(d, e) ==
  \/ d.links # <<>> \/ e.links # <<>>
  \/ d.headStyles # e.headStyles

\* applyPageStyles on the page's artifacts d; rnd[h] is the random suffix
\* drawn for host h's root.
ApplyPageStyles(d, parent, T, rnd) ==
  LET lg == LoadGoogleFont(d.links, T.font, T.fontWeight)
      roots == GetAllShadowRoots(parent)
      styled ==
        [d EXCEPT
           !.links = lg.links,
           !.headStyles = ApplyStylesToRoot(d.headStyles, TRUE, "document", "", T),
           !.shadowStyles =
              [h \in Hosts |->
                 IF h \in roots
                   THEN ApplyStylesToRoot(d.shadowStyles[h], FALSE,
                                          HostIdBase(h), rnd[h], T)
                   ELSE d.shadowStyles[h]]]
      attributed ==
        IF Truthy(T.direction)
          THEN [styled EXCEPT
                  !.dirHtml = DirAttrOf(T.direction),
                  !.dirBody = DirAttrOf(T.direction),
                  !.dirHost = [h \in Hosts |->
                                 IF h \in roots THEN DirAttrOf(T.direction)
                                 ELSE styled.dirHost[h]]]
          ELSE [styled EXCEPT
                  !.dirHtml = Null,
                  !.dirBody = Null,
                  !.dirHost = [h \in Hosts |->
                                 IF h \in roots THEN Null
                                 ELSE styled.dirHost[h]]]
      after == IF lg.threw THEN [d EXCEPT !.links = lg.links] ELSE attributed
  IN  [dom |-> after, threw |-> lg.threw, session |-> lg.session,
       mutated |-> ObservedChange(d, after)]

\* The arguments resetPageStyles gives applyStylesToRoot:
\* (null, null, "", "", "", null, null).
ResetArgs == Tuple(Null, Null, Empty, Empty, Empty, Null, Null)

\* resetPageStyles on the page's artifacts d.
ResetPageStyles(d, parent, rnd) ==
  LET lg == LoadGoogleFont(d.links, Null, Null)
      roots == GetAllShadowRoots(parent)
      after ==
        [d EXCEPT
           !.links = lg.links,
           !.headStyles =
              ApplyStylesToRoot(d.headStyles, TRUE, "document", "", ResetArgs),
           !.dirHtml = Null,
           !.dirBody = Null,
           !.shadowStyles =
              [h \in Hosts |->
                 IF h \in roots
                   THEN ApplyStylesToRoot(d.shadowStyles[h], FALSE,
                                          HostIdBase(h), rnd[h], ResetArgs)
                   ELSE d.shadowStyles[h]],
           !.dirHost = [h \in Hosts |-> IF h \in roots THEN Null
                                        ELSE d.dirHost[h]]]
  IN  [dom |-> after, threw |-> FALSE, session |-> lg.session,
       mutated |-> ObservedChange(d, after)]

\* ------------------------------------------------------------------------
\* State
\* ------------------------------------------------------------------------

VARIABLES
  store,            \* browser.storage.sync: key -> value, NoRecord when absent
  shadowParent,     \* the page: where each shadow host sits
  dom,              \* the page: injected links and styles, dir attributes
  cur,              \* content.js currentApplied*
  sessionFlag,      \* browser.storage.session[hostname].cspBlocked
  loadPc,           \* loadAndApplyInitialStyles: awaitGet, gotData, done
  loadData,         \* what storageArea.get(null) answered for the hostname
  observer,         \* number of MutationObservers observing the document
  mutationQueued,   \* the observer holds records not yet delivered
  lastRequest,      \* the message the onMessage listener handled last
  lastResponse,     \* the sendResponse calls it made for that message
  hist,             \* the last two runs of apply/reset and the page between
  pageOps           \* number of commands handled (bounded)

pageVars ==
  <<shadowParent, dom, cur, sessionFlag, loadPc, loadData, observer,
    mutationQueued, lastRequest, lastResponse, hist, pageOps>>

\* Keys are sequences of labels: a key includes(".") iff it has two or more.
PageKey == <<"example", "com">>

NoRecord == [absent |-> TRUE]

\* host: the hostname, kept as the key it is stored under.
SiteRecord(T, host) ==
  [font |-> T.font, direction |-> T.direction, fontSize |-> T.fontSize,
   lineHeight |-> T.lineHeight, fontWeight |-> T.fontWeight,
   letterSpacing |-> T.letterSpacing, wordSpacing |-> T.wordSpacing,
   host |-> host]

\* settings.font, ..., settings.wordSpacing of a stored record.
RecordTuple(r) ==
  Tuple(r.font, r.direction, r.fontSize, r.lineHeight, r.fontWeight,
        r.letterSpacing, r.wordSpacing)

NoArtifacts ==
  [links |-> <<>>, headStyles |-> <<>>,
   shadowStyles |-> [h \in Hosts |-> <<>>],
   dirHtml |-> Null, dirBody |-> Null, dirHost |-> [h \in Hosts |-> Null]]

NoRequest == [action |-> "none", tuple |-> NullTuple]

NoHist ==
  [op |-> "none", T |-> NullTuple, prevOp |-> "none", prevT |-> NullTuple,
   before |-> NoArtifacts]

\* One run of apply or reset recorded: the run before it and the page as
\* that run left it.
Recorded(op, T) ==
  [op |-> op, T |-> T, prevOp |-> hist.op, prevT |-> hist.T, before |-> dom]

\* The tuples commands and records carry in the exploration of one page.
VazirRtl18 ==
  Tuple(Str("Vazirmatn"), Str("rtl"), NumStr(18 * Scale), Empty, Empty,
        Empty, Empty)

ArialLtr == Tuple(Str("Arial"), Str("ltr"), Empty, Empty, Empty, Empty, Empty)

LalezarBold ==
  Tuple(Str("Lalezar"), Empty, Empty, Empty, NumStr(700 * Scale), Empty, Empty)

\* Records that only an import can have written: a number where the popup
\* writes a string, a direction the popup never writes.
ImportedNumericWeight ==
  Tuple(Str("Vazirmatn"), Empty, Empty, Empty, Num(700 * Scale), Empty, Empty)

ImportedAutoDirection ==
  Tuple(Undef, Str("auto"), Undef, Undef, Undef, Undef, Undef)

PageTuples ==
  {EmptyTuple, VazirRtl18, ArialLtr, LalezarBold, ImportedNumericWeight,
   ImportedAutoDirection}

Requests(tuples) ==
  {[action |-> "applyStyles", tuple |-> T] : T \in tuples}
  \cup {[action |-> "resetStyles", tuple |-> NullTuple],
        [action |-> "ping", tuple |-> NullTuple]}

\* ------------------------------------------------------------------------
\* content.js: the injector's handlers
\* ------------------------------------------------------------------------

SessionAfter(r) == IF r.session = "remove" THEN FALSE ELSE sessionFlag

\* Records reach handleMutations only from an observer that is observing.
QueuedAfter(r) == mutationQueued \/ (observer > 0 /\ r.mutated)

\* The onMessage listener (content.js 326-346) on one request.
OnMessage(request) ==
  /\ lastRequest' = request
  /\ pageOps' = pageOps + 1
  /\ UNCHANGED <<shadowParent, loadPc, loadData, observer>>
  /\ IF request.action = "applyStyles"
       THEN \E rnd \in [Hosts -> Suffixes] :
              LET r == ApplyPageStyles(dom, shadowParent, request.tuple, rnd)
              IN  /\ cur' = request.tuple
                  /\ dom' = r.dom
                  /\ sessionFlag' = SessionAfter(r)
                  /\ mutationQueued' = QueuedAfter(r)
                  /\ hist' = Recorded("apply", request.tuple)
                  /\ lastResponse' =
                       IF r.threw THEN <<>> ELSE <<"Styles received.">>
     ELSE IF request.action = "resetStyles"
       THEN \E rnd \in [Hosts -> Suffixes] :
              LET r == ResetPageStyles(dom, shadowParent, rnd)
              IN  /\ cur' = NullTuple
                  /\ dom' = r.dom
                  /\ sessionFlag' = SessionAfter(r)
                  /\ mutationQueued' = QueuedAfter(r)
                  /\ hist' = Recorded("reset", NullTuple)
                  /\ lastResponse' = <<"Styles reset.">>
     ELSE /\ lastResponse' = <<>>
          /\ UNCHANGED <<cur, dom, sessionFlag, mutationQueued, hist>>

\* storageArea.get(null) answers: the continuation will see the store as it
\* is now.
LoadGetResolves ==
  /\ loadPc = "awaitGet"
  /\ loadPc' = "gotData"
  /\ loadData' = store[PageKey]
  /\ UNCHANGED <<shadowParent, dom, cur, sessionFlag, observer,
                 mutationQueued, lastRequest, lastResponse, hist, pageOps>>

\* startObservingDOM: disconnect the old observer, observe with a new one.
StartObservingDOM == 1

\* A failed read that ends the load without a finally block.
LoadGetRejectsWithoutFinally ==
  /\ loadPc = "awaitGet"
  /\ loadPc' = "done"
  /\ UNCHANGED <<shadowParent, dom, cur, sessionFlag, loadData, observer,
                 mutationQueued, lastRequest, lastResponse, hist, pageOps>>

\* storageArea.get(null) fails: catch logs, finally starts the observer.
LoadGetRejects ==
  /\ loadPc = "awaitGet"
  /\ loadPc' = "done"
  /\ observer' = StartObservingDOM
  /\ UNCHANGED <<shadowParent, dom, cur, sessionFlag, loadData,
                 mutationQueued, lastRequest, lastResponse, hist, pageOps>>

\* A continuation that tests only whether a record exists.
LoadContinuesOnAnyRecord ==
  /\ loadPc = "gotData"
  /\ loadPc' = "done"
  /\ observer' = StartObservingDOM
  /\ UNCHANGED <<shadowParent, loadData, mutationQueued, lastRequest,
                 lastResponse, pageOps>>
  /\ IF loadData # NoRecord
       THEN \E rnd \in [Hosts -> Suffixes] :
              LET T == RecordTuple(loadData)
                  r == ApplyPageStyles(dom, shadowParent, T, rnd)
              IN  /\ cur' = T
                  /\ dom' = r.dom
                  /\ sessionFlag' = SessionAfter(r)
                  /\ hist' = Recorded("apply", T)
       ELSE /\ cur' = NullTuple
            /\ UNCHANGED <<dom, sessionFlag, hist>>

\* The rest of loadAndApplyInitialStyles (content.js 351-386), run when the
\* awaited read has answered.  An exception of applyPageStyles is caught.
\* The observer starts after the apply, so it sees nothing of it.
LoadContinues ==
  /\ loadPc = "gotData"
  /\ loadPc' = "done"
  /\ observer' = StartObservingDOM
  /\ UNCHANGED <<shadowParent, loadData, mutationQueued, lastRequest,
                 lastResponse, pageOps>>
  /\ IF loadData # NoRecord /\ AnyTruthy(RecordTuple(loadData))
       THEN \E rnd \in [Hosts -> Suffixes] :
              LET T == RecordTuple(loadData)
                  r == ApplyPageStyles(dom, shadowParent, T, rnd)
              IN  /\ cur' = T
                  /\ dom' = r.dom
                  /\ sessionFlag' = SessionAfter(r)
                  /\ hist' = Recorded("apply", T)
       ELSE /\ cur' = NullTuple
            /\ UNCHANGED <<dom, sessionFlag, hist>>

\* An onload handler that leaves the session store alone.
LinkLoadsKeepingFlag ==
  /\ \E i \in 1..Len(dom.links) :
       /\ dom.links[i].state = "loading"
       /\ dom' = [dom EXCEPT !.links[i].state = "loaded"]
  /\ UNCHANGED <<shadowParent, cur, sessionFlag, loadPc, loadData, observer,
                 mutationQueued, lastRequest, lastResponse, hist, pageOps>>

\* linkElement.onload / onerror of the link that is loading.
LinkLoads ==
  /\ \E i \in 1..Len(dom.links) :
       /\ dom.links[i].state = "loading"
       /\ dom' = [dom EXCEPT !.links[i].state = "loaded"]
  /\ sessionFlag' = FALSE
  /\ UNCHANGED <<shadowParent, cur, loadPc, loadData, observer,
                 mutationQueued, lastRequest, lastResponse, hist, pageOps>>

LinkFails ==
  /\ \E i \in 1..Len(dom.links) :
       /\ dom.links[i].state = "loading"
       /\ dom' = [dom EXCEPT !.links[i].state = "failed"]
  /\ sessionFlag' = TRUE
  /\ UNCHANGED <<shadowParent, cur, loadPc, loadData, observer,
                 mutationQueued, lastRequest, lastResponse, hist, pageOps>>

\* ------------------------------------------------------------------------
\* content.js: the mutation observer and its debounce timer
\* ------------------------------------------------------------------------

VARIABLES
  mutationDebounceTimeout,  \* the timer id handleMutations keeps, 0 at first
  timers,                   \* pending setTimeout timers: [id, due]
  now,                      \* the clock, in ms
  deb                       \* bookkeeping of batches, bursts and firings

timeVars == <<mutationDebounceTimeout, timers, now, deb>>

\* The delay handleMutations gives setTimeout.
DebounceDelay == 300

\* The clock advances in these steps.
TickSteps == {100, 200, 300}

NoTime == 0 - 1

NoDeb ==
  [lastBatchAt |-> NoTime, burstLen |-> 0, bursts |-> 0, fires |-> 0,
   reapplies |-> 0, lastFireAt |-> NoTime, lastFireBatchAt |-> NoTime,
   lastFireTuple |-> NullTuple, lastFireApplied |-> FALSE,
   lastBatchOps |-> 0, lastFireCommands |-> 0]

\* setTimeout returns an id no pending timer has; ids are positive.
FreshTimerId(pending) ==
  CHOOSE id \in 1..(Cardinality(pending) + 1) :
    \A t \in pending : t.id # id

\* A handleMutations that forgets clearTimeout.
ClearTimeoutForgotten(pending, id) == pending

\* clearTimeout(id): the timer with that id, if it is still pending, is gone.
ClearTimeout(pending, id) == {t \in pending : t.id # id}

\* handleMutations: cancel the timer kept, start a new one.
ResetDebounce(pending, kept, at) ==
  LET cleared == ClearTimeout(pending, kept)
      id == FreshTimerId(cleared)
  IN  [timers |-> cleared \cup {[id |-> id, due |-> at + DebounceDelay]},
       kept |-> id]

\* A timer that is due runs before anything else does.
TimerDue == \E t \in timers : t.due <= now

\* A batch opens a burst unless it follows the batch before it by less than
\* the window.
OpensBurst == deb.lastBatchAt = NoTime \/ now - deb.lastBatchAt >= DebounceDelay

\* The observer delivers its records: handleMutations (content.js 389-412)
\* up to the setTimeout call.
HandleMutations ==
  /\ mutationQueued
  /\ ~TimerDue
  /\ mutationQueued' = FALSE
  /\ LET r == ResetDebounce(timers, mutationDebounceTimeout, now)
     IN  /\ timers' = r.timers
         /\ mutationDebounceTimeout' = r.kept
  /\ deb' = [deb EXCEPT
               !.lastBatchAt = now,
               !.lastBatchOps = pageOps,
               !.bursts = IF OpensBurst THEN @ + 1 ELSE @,
               !.burstLen = IF OpensBurst THEN 1 ELSE @ + 1]
  /\ UNCHANGED <<now, shadowParent, dom, cur, sessionFlag, loadPc, loadData,
                 observer, lastRequest, lastResponse, hist, pageOps>>

\* A callback that re-applies the tuple of the run before the last one.
TimerFiresWithEarlierTuple ==
  /\ \E t \in timers :
       /\ t.due <= now
       /\ timers' = timers \ {t}
  /\ UNCHANGED <<now, mutationDebounceTimeout, shadowParent, loadPc, loadData,
                 observer, lastRequest, lastResponse, pageOps>>
  /\ LET earlier == IF hist.prevOp = "apply" THEN hist.prevT ELSE cur
     IN  IF AnyTruthy(earlier)
           THEN \E rnd \in [Hosts -> Suffixes] :
                  LET r == ApplyPageStyles(dom, shadowParent, earlier, rnd)
                  IN  /\ cur' = earlier
                      /\ dom' = r.dom
                      /\ sessionFlag' = SessionAfter(r)
                      /\ mutationQueued' = QueuedAfter(r)
                      /\ hist' = Recorded("apply", earlier)
                      /\ deb' = [deb EXCEPT !.fires = @ + 1,
                                            !.reapplies = @ + 1,
                                            !.lastFireAt = now,
                                            !.lastFireBatchAt = deb.lastBatchAt,
                                            !.lastFireTuple = earlier,
                                            !.lastFireCommands =
                                              pageOps - deb.lastBatchOps,
                                            !.lastFireApplied = TRUE]
           ELSE /\ UNCHANGED <<cur, dom, sessionFlag, mutationQueued, hist>>
                /\ deb' = [deb EXCEPT !.fires = @ + 1,
                                      !.lastFireAt = now,
                                      !.lastFireBatchAt = deb.lastBatchAt,
                                      !.lastFireTuple = earlier,
                                      !.lastFireCommands =
                                        pageOps - deb.lastBatchOps,
                                      !.lastFireApplied = FALSE]

\* The callback handleMutations gave setTimeout (content.js 391-411).
TimerFires ==
  /\ \E t \in timers :
       /\ t.due <= now
       /\ timers' = timers \ {t}
  /\ UNCHANGED <<now, mutationDebounceTimeout, shadowParent, loadPc, loadData,
                 observer, lastRequest, lastResponse, pageOps>>
  /\ IF AnyTruthy(cur)
       THEN \E rnd \in [Hosts -> Suffixes] :
              LET r == ApplyPageStyles(dom, shadowParent, cur, rnd)
              IN  /\ cur' = cur
                  /\ dom' = r.dom
                  /\ sessionFlag' = SessionAfter(r)
                  /\ mutationQueued' = QueuedAfter(r)
                  /\ hist' = Recorded("apply", cur)
                  /\ deb' = [deb EXCEPT !.fires = @ + 1, !.reapplies = @ + 1,
                                        !.lastFireAt = now,
                                        !.lastFireBatchAt = deb.lastBatchAt,
                                        !.lastFireTuple = cur,
                                        !.lastFireCommands = pageOps - deb.lastBatchOps,
                                        !.lastFireApplied = TRUE]
       ELSE /\ UNCHANGED <<cur, dom, sessionFlag, mutationQueued, hist>>
            /\ deb' = [deb EXCEPT !.fires = @ + 1,
                                  !.lastFireAt = now,
                                  !.lastFireBatchAt = deb.lastBatchAt,
                                  !.lastFireTuple = cur,
                                  !.lastFireCommands = pageOps - deb.lastBatchOps,
                                  !.lastFireApplied = FALSE]

\* The page changes its own DOM under the observer.
PageMutates ==
  /\ observer > 0
  /\ ~mutationQueued
  /\ ~TimerDue
  /\ mutationQueued' = TRUE
  /\ UNCHANGED <<shadowParent, dom, cur, sessionFlag, loadPc, loadData,
                 observer, lastRequest, lastResponse, hist, pageOps>>
  /\ UNCHANGED timeVars

\* Time passes: never past a pending timer's due time, and not while records
\* wait for delivery (they are delivered at the end of the task that made
\* them).
Tick(dt, maxTime) ==
  /\ ~mutationQueued
  /\ now + dt <= maxTime
  /\ \A t \in timers : now + dt <= t.due
  /\ now' = now + dt
  /\ UNCHANGED <<mutationDebounceTimeout, timers, deb>>
  /\ UNCHANGED pageVars

\* ------------------------------------------------------------------------
\* popup.js: the numeric inputs
\* ------------------------------------------------------------------------

NumberFields == {"fontSize", "lineHeight", "letterSpacing", "wordSpacing"}

\* numberInputConfig, in thousandths.
NumberInputConfig(field) ==
  CASE field = "fontSize" ->
         [min |-> 8 * Scale, max |-> 72 * Scale, step |-> Scale]
    [] field = "lineHeight" ->
         [min |-> 800, max |-> 3 * Scale, step |-> 100]
    [] field = "letterSpacing" ->
         [min |-> 0 - 5 * Scale, max |-> 10 * Scale, step |-> 100]
    [] field = "wordSpacing" ->
         [min |-> 0 - 10 * Scale, max |-> 30 * Scale, step |-> 500]

\* isNaN(parseFloat(text)) || text === "": the text of an input is a string.
NotANumber(text) == text.t # "numstr"

\* Math.round: to the nearest integer, halves upwards.
MathRound(n) == ((n + (Scale \div 2)) \div Scale) * Scale

\* parseFloat(n.toFixed(2)): to the nearest hundredth, halves away from zero.
ToFixed2(n) ==
  IF n >= 0 THEN ((n + 5) \div 10) * 10
  ELSE 0 - (((0 - n) + 5) \div 10) * 10

ClampToConfig(field, n) ==
  LET config == NumberInputConfig(field)
      low == IF n < config.min THEN config.min ELSE n
  IN  IF low > config.max THEN config.max ELSE low

RoundForField(field, n) ==
  IF field = "fontSize" THEN MathRound(n) ELSE ToFixed2(n)

\* The value the "change" handler leaves in the input (popup.js 380-396).
CommittedValue(field, text) ==
  IF NotANumber(text)
    THEN Empty
    ELSE NumStr(RoundForField(field, ClampToConfig(field, text.n)))

\* ------------------------------------------------------------------------
\* popup.js: the controls, and saveAndApplySettings
\* ------------------------------------------------------------------------

VARIABLES
  tabUrl,           \* the active tab's URL: [scheme, host]
  controls,         \* the popup's controls, as getCurrentUISettings reads them
  controlsEnabled,  \* canInteractWithPage at the last loadSavedSettings
  saves,            \* saveAndApplySettings calls under way
  popupOpen,        \* whether the popup is open
  popupEvents,      \* events not yet handled by the popup's listeners
  inbox,            \* messages on their way to the tab's content script
  editLog           \* per edit: what it read, wrote and pushed

popupVars ==
  <<tabUrl, controls, controlsEnabled, saves, popupOpen, popupEvents, inbox,
    editLog>>

LocalKey == <<"localhost">>

\* A key k stands for the hostname whose labels it lists: k.includes(".")
\* is Len(k) >= 2.
IncludesDot(k) == Len(k) >= 2

\* The hostnames of the pages the popup is opened on.
PageHostKeys == {PageKey, LocalKey}

\* A second hostname with dots: blog.example.org.
OtherKey == <<"blog", "example", "org">>

GlobalKeys == {<<"theme">>, <<"uiFont">>, <<"extensionLanguage">>}

\* ALL_SETTINGS_KEY (settings.js 12).
ALL_SETTINGS_KEY == <<"fontChangerAllSettingsBackup">>

\* The keys of the store: three hostnames, the three global keys and the
\* backup key.
Keys == PageHostKeys \cup {OtherKey} \cup GlobalKeys \cup {ALL_SETTINGS_KEY}

\* A set that merges into a stored object the fields given that are not "".
StoreSetMerging(s, items) ==
  [k \in Keys |->
     IF k \notin DOMAIN items THEN s[k]
     ELSE IF "font" \in DOMAIN s[k] /\ "font" \in DOMAIN items[k]
       THEN [f \in DOMAIN items[k] |->
               IF items[k][f] = Empty THEN s[k][f] ELSE items[k][f]]
       ELSE items[k]]

\* A set that replaces the whole store by the items given.
StoreSetReplacing(s, items) ==
  [k \in Keys |-> IF k \in DOMAIN items THEN items[k] ELSE NoRecord]

\* storage.sync.set(items): the named keys are replaced, the others kept.
StoreSet(s, items) ==
  [k \in Keys |-> IF k \in DOMAIN items THEN items[k] ELSE s[k]]

\* storage.sync.remove(key).
StoreRemove(s, key) == [s EXCEPT ![key] = NoRecord]

\* storage.sync.clear().
StoreClear == [k \in Keys |-> NoRecord]

\* The keys a changed event carries.
ChangedKeys(s, t) == {k \in Keys : s[k] # t[k]}

StorageChanged(keys) == [kind |-> "storage", keys |-> keys]

TabUpdated == [kind |-> "tabUpdated", keys |-> {}]

\* storage.onChanged reaches the listeners registered in open views; the
\* injector (content.js) registers none.
Notify(keys) ==
  popupEvents' = IF popupOpen /\ keys # {}
                   THEN Append(popupEvents, StorageChanged(keys))
                   ELSE popupEvents


\* new URL("about:blank").hostname and the hostname of a file: URL.
EmptyHostKey == <<"">>

\* url.startsWith("http") || url.startsWith("file")
IsHttpOrFile(url) == url.scheme \in {"http", "https", "file"}

\* url.startsWith("chrome://") || startsWith("about:") || startsWith("edge://")
IsBrowserInternal(url) == url.scheme \in {"chrome", "about", "edge"}

\* fontsWithWeightSupport: the weights offered for a font, {} when the
\* weight selector is disabled.
WeightOptions(font) ==
  CASE font = "Vazirmatn" -> {w * 100 * Scale : w \in 1..9}
    [] font = "Roboto" -> {w * 100 * Scale : w \in {1, 3, 4, 5, 7, 9}}
    [] OTHER -> {}

\* FONT_LIST (fonts-config.js), abridged: the default entry, a font with
\* variable weights, one with listed weights, one without weight support.
FONT_LIST == {"", "Vazirmatn", "Roboto", "Lalezar"}

\* populateFontSelectDOM: the option selected for a stored font.
FontShown(v) == IF v.t = "str" /\ v.s \in FONT_LIST THEN v ELSE Empty

\* updateFontWeightSelector: the value the weight selector ends with.
WeightSelectorValue(font, weight) ==
  IF font.t = "str" /\ weight.t \in {"num", "numstr"}
       /\ weight.n \in WeightOptions(font.s)
    THEN ToText(weight)
    ELSE Empty

\* A getCurrentUISettings that leaves the weight selector out.
GetUISettingsWithoutWeight(c) ==
  Tuple(c.font, c.direction, c.fontSize, c.lineHeight, Empty,
        c.letterSpacing, c.wordSpacing)

\* getCurrentUISettings.
GetCurrentUISettings(c) ==
  Tuple(c.font, c.direction, c.fontSize, c.lineHeight, c.fontWeight,
        c.letterSpacing, c.wordSpacing)

\* x || "" for the values a record holds.
OrEmpty(v) == IF Truthy(v) THEN v ELSE Empty

\* x ?? "", assigned to an input's value: null and undefined give "", a
\* number gives its text.
NullishToEmpty(v) == IF v.t \in {"null", "undef"} THEN Empty ELSE ToText(v)

\* updateDirectionButtonsVisualState then getCurrentSelectedDirection.
DirectionShown(v) == IF IsRtlOrLtr(v) THEN v ELSE Empty

\* The controls after loadSavedSettings has read siteSettings (popup.js
\* 545-563); siteSettings is NoRecord when there is none to show.
LoadedControls(siteSettings) ==
  IF siteSettings = NoRecord
    THEN EmptyTuple
    ELSE Tuple(OrEmpty(siteSettings.font),
               DirectionShown(OrEmpty(siteSettings.direction)),
               NullishToEmpty(siteSettings.fontSize),
               NullishToEmpty(siteSettings.lineHeight),
               WeightSelectorValue(FontShown(OrEmpty(siteSettings.font)),
                                   OrEmpty(siteSettings.fontWeight)),
               NullishToEmpty(siteSettings.letterSpacing),
               NullishToEmpty(siteSettings.wordSpacing))

\* loadSavedSettings: what the popup shows for the active tab.
LoadSavedSettings ==
  /\ controlsEnabled' = IsHttpOrFile(tabUrl)
  /\ controls' = IF IsHttpOrFile(tabUrl) /\ tabUrl.host # EmptyHostKey
                   THEN LoadedControls(store[tabUrl.host])
                   ELSE EmptyTuple

\* What one edit has done so far: the controls as the handler left them,
\* the tab seen by getCurrentTab, the set calls and the messages.
NoEdit ==
  [read |-> EmptyTuple, activeUrl |-> [scheme |-> "", host |-> EmptyHostKey],
   sets |-> 0, failedSets |-> 0, setKey |-> EmptyHostKey,
   setValue |-> NoRecord, pushes |-> 0, pushed |-> NoRequest,
   pushesBeforeSet |-> 0, done |-> FALSE]

\* A handler calls saveAndApplySettings(T...): the call starts by awaiting
\* getCurrentTab.  The edit's log entry notes what the controls read now.
StartSave(T) ==
  /\ controlsEnabled
  /\ saves' = Append(saves, [edit |-> Len(editLog) + 1, T |-> T,
                             pc |-> "getTab", url |-> tabUrl])
  /\ editLog' = Append(editLog, [NoEdit EXCEPT !.read = controls'])
  /\ UNCHANGED <<store, tabUrl, controlsEnabled, popupOpen, popupEvents, inbox>>

\* A message without an action the injector knows.
UnknownActionRequest(settings) ==
  [action |-> "ping", tuple |-> RecordTuple(settings)]

\* The message saveAndApplySettings sends: {action: "applyStyles", ...settings}.
ApplyStylesRequest(settings) ==
  [action |-> "applyStyles", tuple |-> RecordTuple(settings)]

\* Texts a user types into a number input.
TypedTexts(field) ==
  LET config == NumberInputConfig(field)
  IN  {Str("abc"), NumStr(config.min - 2 * config.step),
       NumStr(config.min + config.step + 4), NumStr(config.max + 28 * Scale)}

\* fontSelect "change" (popup.js 410-428).
FontSelectChange(f) ==
  /\ controls' = [controls EXCEPT !.font = Str(f), !.fontWeight = Empty]
  /\ StartSave(GetCurrentUISettings(controls'))

\* fontWeightSelect "change" (popup.js 430-442): w is an offered weight or
\* the "Browser Default" option.
FontWeightChange(w) ==
  /\ w = Empty \/ (w.t = "numstr" /\ w.n \in WeightOptions(controls.font.s))
  /\ controls' = [controls EXCEPT !.fontWeight = w]
  /\ StartSave(GetCurrentUISettings(controls'))

\* A click that selects the button's direction whatever is active.
DirectionClickWithoutToggle(d) ==
  /\ controls' = [controls EXCEPT !.direction = Str(d)]
  /\ StartSave([GetCurrentUISettings(controls') EXCEPT !.direction = Str(d)])

\* btnRtl / btnLtr "click" (popup.js 444-474): a toggle.
DirectionClick(d) ==
  LET newDirection == IF controls.direction # Str(d) THEN Str(d) ELSE Empty
  IN  /\ controls' = [controls EXCEPT !.direction = newDirection]
      /\ StartSave([GetCurrentUISettings(controls')
                      EXCEPT !.direction = newDirection])

\* A number input's "input" event (popup.js 367-378): the text as typed.
NumberInput(field, text) ==
  /\ controls' = [controls EXCEPT ![field] = text]
  /\ StartSave(GetCurrentUISettings(controls'))

\* A number input's "change" event (popup.js 380-407).
NumberChange(field) ==
  /\ controls' = [controls EXCEPT ![field] = CommittedValue(field, @)]
  /\ StartSave(GetCurrentUISettings(controls'))

\* A stepper that moves the value by one step and does not clamp it.
SteppedValueWithoutClamp(field, up) ==
  LET config == NumberInputConfig(field)
      text == controls[field]
      baseValue == IF field = "fontSize" THEN 16 * Scale ELSE 0
      start == IF NotANumber(text)
                 THEN (IF up THEN baseValue - config.step
                             ELSE baseValue + config.step)
                 ELSE text.n
      moved == IF up THEN start + config.step ELSE start - config.step
  IN  NumStr(RoundForField(field, moved))

\* The value a stepper button leaves in the input (popup.js 323-344).
SteppedValue(field, up) ==
  LET config == NumberInputConfig(field)
      text == controls[field]
      baseValue == IF field = "fontSize" THEN 16 * Scale ELSE 0
      start == IF NotANumber(text)
                 THEN (IF up THEN baseValue - config.step
                             ELSE baseValue + config.step)
                 ELSE text.n
      moved == IF up THEN start + config.step ELSE start - config.step
  IN  NumStr(RoundForField(field, ClampToConfig(field, moved)))

\* .stepper-btn "click" (popup.js 317-356).
StepperClick(field, up) ==
  /\ controls' = [controls EXCEPT ![field] = SteppedValue(field, up)]
  /\ StartSave(GetCurrentUISettings(controls'))

\* resetButton "click" (popup.js 476-487).
ResetButtonClick ==
  /\ controls' = EmptyTuple
  /\ StartSave(EmptyTuple)

RemoveSave(i) == RemoveAt(saves, i)

\* saveAndApplySettings after `await getCurrentTab()` (popup.js 190-217).
SaveGetsTab(i) ==
  /\ i \in DOMAIN saves
  /\ saves[i].pc = "getTab"
  /\ IF IsBrowserInternal(tabUrl)
       THEN /\ saves' = RemoveSave(i)
            /\ editLog' = [editLog EXCEPT ![saves[i].edit].activeUrl = tabUrl,
                                          ![saves[i].edit].done = TRUE]
       ELSE /\ saves' = [saves EXCEPT ![i].pc = "set", ![i].url = tabUrl]
            /\ editLog' = [editLog EXCEPT ![saves[i].edit].activeUrl = tabUrl]
  /\ UNCHANGED <<store, tabUrl, controls, controlsEnabled, popupOpen,
                 popupEvents, inbox>>

\* storage.sync.set({[hostname]: settings}) takes effect (popup.js 220); a
\* changed event goes out when the stored value changes.
SaveWrites(i) ==
  /\ i \in DOMAIN saves
  /\ saves[i].pc = "set"
  /\ LET hostname == saves[i].url.host
         settings == SiteRecord(saves[i].T, hostname)
     IN  /\ store' = StoreSet(store, [k \in {hostname} |-> settings])
         /\ Notify(ChangedKeys(store, store'))
         /\ editLog' = [editLog EXCEPT ![saves[i].edit].sets = @ + 1,
                                       ![saves[i].edit].setKey = hostname,
                                       ![saves[i].edit].setValue = settings]
  /\ saves' = [saves EXCEPT ![i].pc = "send"]
  /\ UNCHANGED <<tabUrl, controls, controlsEnabled, popupOpen, inbox>>

\* A catch that logs and goes on to the push.
SaveSetRejectsAndGoesOn(i) ==
  /\ i \in DOMAIN saves
  /\ saves[i].pc = "set"
  /\ saves' = [saves EXCEPT ![i].pc = "send"]
  /\ editLog' = [editLog EXCEPT ![saves[i].edit].failedSets = @ + 1]
  /\ UNCHANGED <<store, tabUrl, controls, controlsEnabled, popupOpen,
                 popupEvents, inbox>>

\* storage.sync.set rejects: the catch logs and returns (popup.js 221-224).
SaveSetRejects(i) ==
  /\ i \in DOMAIN saves
  /\ saves[i].pc = "set"
  /\ saves' = RemoveSave(i)
  /\ editLog' = [editLog EXCEPT ![saves[i].edit].failedSets = @ + 1,
                                ![saves[i].edit].done = TRUE]
  /\ UNCHANGED <<store, tabUrl, controls, controlsEnabled, popupOpen,
                 popupEvents, inbox>>

\* The code after `await set`: tabs.sendMessage(currentTab.id, ...)
\* (popup.js 227-238).
SaveSends(i) ==
  /\ i \in DOMAIN saves
  /\ saves[i].pc = "send"
  /\ LET settings == SiteRecord(saves[i].T, saves[i].url.host)
         e == saves[i].edit
     IN  /\ inbox' = Append(inbox, ApplyStylesRequest(settings))
         /\ editLog' = [editLog EXCEPT
                          ![e].pushes = @ + 1,
                          ![e].pushed = ApplyStylesRequest(settings),
                          ![e].pushesBeforeSet =
                             IF editLog[e].sets = 0 THEN @ + 1 ELSE @,
                          ![e].done = TRUE]
  /\ saves' = RemoveSave(i)
  /\ UNCHANGED <<store, tabUrl, controls, controlsEnabled, popupOpen,
                 popupEvents>>

\* The popup's storage.onChanged listener (popup.js 610-642) and its
\* tabs.onUpdated listener (popup.js 669-680), for the oldest event.
PopupHandlesEvent ==
  /\ popupEvents # <<>>
  /\ LET event == Head(popupEvents)
         needsReloadForSettings ==
           \/ event.kind = "tabUpdated"
           \/ /\ IsHttpOrFile(tabUrl)
              /\ tabUrl.host \in event.keys
           \/ event.keys \cap GlobalKeys # {}
     IN  IF needsReloadForSettings
           THEN LoadSavedSettings
           ELSE UNCHANGED <<controls, controlsEnabled>>
  /\ popupEvents' = Tail(popupEvents)
  /\ UNCHANGED <<store, tabUrl, saves, popupOpen, inbox, editLog>>

\* The active tab finishes loading another URL.
TabNavigates(url) ==
  /\ url # tabUrl
  /\ tabUrl' = url
  /\ popupEvents' = IF popupOpen THEN Append(popupEvents, TabUpdated)
                                 ELSE popupEvents
  /\ UNCHANGED <<store, controls, controlsEnabled, saves, popupOpen, inbox,
                 editLog>>

\* ------------------------------------------------------------------------
\* settings.js: the settings manager
\* ------------------------------------------------------------------------

VARIABLES
  exportFile,   \* the document the last export downloaded
  resetPc,      \* where handleResetAllSettings stands
  roundTrip,    \* the store an export read, and what has happened since
  settingsOps,  \* operations the settings manager has run
  statusMessage,  \* the key of the status message shown, "" if none
  reloads       \* location.reload() calls of the settings page

settingsVars ==
  <<exportFile, resetPc, roundTrip, settingsOps, statusMessage, reloads>>

DEFAULT_UI_FONT == Str("Vazirmatn")

\* A file holds a JSON document, or text that JSON.parse rejects.
NoFile == [ok |-> FALSE, data |-> <<>>]

JsonFile(data) == [ok |-> TRUE, data |-> data]

\* JSON.stringify(exportData) and JSON.parse of that text: the values of the
\* store are strings, numbers, null and objects of these, which JSON keeps
\* as they are; a field that is missing (undefined) stays missing.
JsonStringify(data) == [k \in DOMAIN data |-> data[k]]

\* typeof v === "object" && v !== null
IsObject(v) == v # NoRecord /\ "t" \notin DOMAIN v

\* The keys storage.get(null) returns.
PresentKeys(s) == {k \in Keys : s[k] # NoRecord}

\* The entries refreshSiteListPage lists (settings.js 343-352), unsorted.
ListedSites(s) ==
  {k \in PresentKeys(s) :
     /\ IncludesDot(k)
     /\ IsObject(s[k])
     /\ k \notin GlobalKeys \cup {ALL_SETTINGS_KEY}}

\* The keys handleExportSettings keeps (settings.js 531-537).
ExportedKeys(s) ==
  {k \in PresentKeys(s) : IncludesDot(k) \/ k \in GlobalKeys}

ExportData(s) == [k \in ExportedKeys(s) |-> s[k]]

NoRoundTrip == [phase |-> "none", from |-> StoreClear]

\* An operation that is not part of an export / reset-all / import sequence.
Intervenes == roundTrip' = [roundTrip EXCEPT !.phase = "none"]

\* The "remove" item of a listed site's menu (settings.js 279-285).
RemoveSite(host) ==
  /\ host \in ListedSites(store)
  /\ store' = StoreRemove(store, host)
  /\ Notify(ChangedKeys(store, store'))
  /\ Intervenes
  /\ settingsOps' = settingsOps + 1
  /\ UNCHANGED <<exportFile, resetPc, statusMessage, reloads>>

\* handleExportSettings (settings.js 528-555).
HandleExportSettings ==
  /\ IF ExportedKeys(store) = {}
       THEN /\ statusMessage' = "exportNoSettingsMessage"
            /\ UNCHANGED <<exportFile, roundTrip>>
       ELSE /\ exportFile' = JsonFile(JsonStringify(ExportData(store)))
            /\ statusMessage' = "exportSuccessMessage"
            /\ roundTrip' = [phase |-> "exported", from |-> store]
  /\ settingsOps' = settingsOps + 1
  /\ UNCHANGED <<store, popupEvents, resetPc, reloads>>

\* A handler whose location.reload() stands in the finally block.
ImportReloadsAlways(file) ==
  /\ IF file.ok
       THEN /\ store' = StoreSet(store, file.data)
            /\ Notify(ChangedKeys(store, store'))
            /\ statusMessage' = ""
       ELSE /\ statusMessage' = "importErrorMessage"
            /\ UNCHANGED <<store, popupEvents>>
  /\ reloads' = reloads + 1
  /\ roundTrip' = [roundTrip EXCEPT !.phase = "none"]
  /\ settingsOps' = settingsOps + 1
  /\ UNCHANGED <<exportFile, resetPc>>

\* handleImportSettings (settings.js 557-572) on a chosen file: the parsed
\* document is set and the page reloads; a text JSON.parse rejects ends in
\* the catch, which shows importErrorMessage.
HandleImportSettings(file) ==
  /\ IF file.ok
       THEN /\ store' = StoreSet(store, file.data)
            /\ Notify(ChangedKeys(store, store'))
            /\ reloads' = reloads + 1
            /\ statusMessage' = ""
       ELSE /\ statusMessage' = "importErrorMessage"
            /\ UNCHANGED <<store, popupEvents, reloads>>
  /\ roundTrip' =
       IF file.ok /\ file = exportFile /\ roundTrip.phase \in {"exported", "reset"}
         THEN [roundTrip EXCEPT !.phase = "imported"]
         ELSE [roundTrip EXCEPT !.phase = "none"]
  /\ settingsOps' = settingsOps + 1
  /\ UNCHANGED <<exportFile, resetPc>>

\* handleResetAllSettings up to the end of `await storageArea.clear()`
\* (settings.js 574-582).
ResetAllClears ==
  /\ resetPc = "idle"
  /\ store' = StoreClear
  /\ Notify(ChangedKeys(store, store'))
  /\ resetPc' = "cleared"
  /\ roundTrip' = IF roundTrip.phase = "exported"
                    THEN [roundTrip EXCEPT !.phase = "resetting"]
                    ELSE [roundTrip EXCEPT !.phase = "none"]
  /\ settingsOps' = settingsOps + 1
  /\ UNCHANGED <<exportFile, statusMessage, reloads>>

\* handleResetAllSettings from the set of the defaults to the reload
\* (settings.js 583-588).
ResetAllSetsDefaults ==
  /\ resetPc = "cleared"
  /\ store' = StoreSet(store,
                       [k \in GlobalKeys |->
                          CASE k = <<"theme">> -> Str("system")
                            [] k = <<"uiFont">> -> DEFAULT_UI_FONT
                            [] OTHER -> Str("en")])
  /\ Notify(ChangedKeys(store, store'))
  /\ resetPc' = "idle"
  /\ roundTrip' = IF roundTrip.phase = "resetting"
                    THEN [roundTrip EXCEPT !.phase = "reset"]
                    ELSE [roundTrip EXCEPT !.phase = "none"]
  /\ reloads' = reloads + 1
  /\ statusMessage' = ""
  /\ UNCHANGED <<exportFile, settingsOps>>

\* ------------------------------------------------------------------------
\* The service worker's tabs.onUpdated listener
\* ------------------------------------------------------------------------

VARIABLES
  lookups,   \* listener runs waiting for storage.sync.get(hostname)
  pushLog    \* every run of the listener that has ended

dispatcherVars == <<lookups, pushLog>>

\* A guard that does not look at changeInfo.status.
PushGuardAnyStatus(status, url) == IsHttpOrFile(url)

\* changeInfo.status === "complete" && tab.url &&
\* (tab.url.startsWith("http") || tab.url.startsWith("file"))
PushGuard(status, url) == status = "complete" /\ IsHttpOrFile(url)

\* The message the listener sends (README.md 291-300).
FallbackRequest(settings) ==
  [action |-> "applyStyles",
   tuple |-> Tuple(settings.font, settings.direction, settings.fontSize,
                   settings.lineHeight, settings.fontWeight,
                   settings.letterSpacing, settings.wordSpacing)]

\* One ended run: the event, the store when it was read, what was sent.
Ended(status, url, readFailed, storeRead, sent) ==
  [status |-> status, url |-> url, readFailed |-> readFailed,
   storeRead |-> storeRead, sent |-> sent]

\* tabs.onUpdated fires (README.md 275-283): the run ends at once, or
\* waits for the store.
TabsOnUpdated(status, url) ==
  /\ IF PushGuard(status, url)
       THEN /\ lookups' = Append(lookups, [status |-> status, url |-> url])
            /\ pushLog' = pushLog
       ELSE /\ lookups' = lookups
            /\ pushLog' = Append(pushLog,
                                 Ended(status, url, FALSE, store, NoRequest))
  /\ UNCHANGED <<store, inbox>>

\* A listener that stores a default record for a hostname it finds none for.
LookupResolvesStoringDefault(i) ==
  /\ i \in DOMAIN lookups
  /\ LET hostname == lookups[i].url.host
         settings == store[hostname]
         sent == IF settings # NoRecord THEN FallbackRequest(settings)
                                        ELSE NoRequest
     IN  /\ inbox' = IF settings # NoRecord THEN Append(inbox, sent) ELSE inbox
         /\ pushLog' = Append(pushLog,
                              Ended(lookups[i].status, lookups[i].url, FALSE,
                                    store, sent))
         /\ store' = IF settings # NoRecord
                       THEN store
                       ELSE StoreSet(store,
                                     [k \in {hostname} |->
                                        SiteRecord(EmptyTuple, hostname)])
  /\ lookups' = RemoveAt(lookups, i)

\* storage.sync.get(hostname) resolves (README.md 283-309).
LookupResolves(i) ==
  /\ i \in DOMAIN lookups
  /\ LET hostname == lookups[i].url.host
         settings == store[hostname]
         sent == IF settings # NoRecord THEN FallbackRequest(settings)
                                        ELSE NoRequest
     IN  /\ inbox' = IF settings # NoRecord THEN Append(inbox, sent) ELSE inbox
         /\ pushLog' = Append(pushLog,
                              Ended(lookups[i].status, lookups[i].url, FALSE,
                                    store, sent))
  /\ lookups' = RemoveAt(lookups, i)
  /\ UNCHANGED store

\* storage.sync.get(hostname) rejects: the outer catch logs (README.md
\* 310-315).
LookupRejects(i) ==
  /\ i \in DOMAIN lookups
  /\ pushLog' = Append(pushLog,
                       Ended(lookups[i].status, lookups[i].url, TRUE, store,
                             NoRequest))
  /\ lookups' = RemoveAt(lookups, i)
  /\ UNCHANGED <<store, inbox>>

\* ------------------------------------------------------------------------
\* settings.js: the site list
\* ------------------------------------------------------------------------

VARIABLES
  served,      \* the page's attributes and elements as the server sent them
  siteList,    \* the hostnames the settings manager lists, in order
  listEvents   \* refreshSiteListPage calls waiting for storageArea.get(null)

listVars == <<served, siteList, listEvents>>

\* The letters of the hostnames, in the order localeCompare gives them; the
\* dot sorts before every letter.
Alphabet ==
  <<".", "a", "b", "c", "e", "g", "h", "l", "m", "o", "p", "r", "s", "t", "x">>

Rank(ch) == CHOOSE i \in DOMAIN Alphabet : Alphabet[i] = ch

\* The characters of a label.
Spelling(label) ==
  CASE label = "example" -> <<"e", "x", "a", "m", "p", "l", "e">>
    [] label = "com" -> <<"c", "o", "m">>
    [] label = "blog" -> <<"b", "l", "o", "g">>
    [] label = "org" -> <<"o", "r", "g">>
    [] label = "localhost" -> <<"l", "o", "c", "a", "l", "h", "o", "s", "t">>
    [] OTHER -> <<>>

\* The hostname a key stands for, as its characters: the labels joined by
\* dots.
RECURSIVE HostName(_)
HostName(k) ==
  IF Len(k) = 0 THEN <<>>
  ELSE IF Len(k) = 1 THEN Spelling(k[1])
  ELSE Spelling(k[1]) \o <<".">> \o HostName(Tail(k))

\* a.localeCompare(b) < 0 for hostnames a and b.
RECURSIVE Precedes(_, _)
Precedes(a, b) ==
  IF b = <<>> THEN FALSE
  ELSE IF a = <<>> THEN TRUE
  ELSE IF Head(a) = Head(b) THEN Precedes(Tail(a), Tail(b))
  ELSE Rank(Head(a)) < Rank(Head(b))

LocaleCompare(j, k) == Precedes(HostName(j), HostName(k))

\* entries.sort(([a], [b]) => a.localeCompare(b)) on a set of keys.
RECURSIVE SortByHostName(_)
SortByHostName(ks) ==
  IF ks = {} THEN <<>>
  ELSE LET first == CHOOSE k \in ks : \A j \in ks \ {k} : LocaleCompare(k, j)
       IN  <<first>> \o SortByHostName(ks \ {first})

\* The entries refreshSiteListPage hands to buildAndAttachSiteListDOM
\* (settings.js 341-353).
SiteEntries(s) == SortByHostName(ListedSites(s))

\* refreshSiteListPage is called (settings.js 63, 603, 646).
RefreshRequested == listEvents' = listEvents + 1

\* storage.onChanged in the settings manager (settings.js 607-648): a
\* changed key with a dot asks for a refresh.
ListNotified(keys) ==
  listEvents' = IF \E k \in keys : IncludesDot(k) THEN listEvents + 1
                ELSE listEvents

\* refreshSiteListPage from the resolution of storageArea.get(null)
\* (settings.js 341-363).
RefreshSiteListPage ==
  /\ listEvents > 0
  /\ siteList' = SiteEntries(store)
  /\ listEvents' = listEvents - 1
  /\ UNCHANGED served

\* ------------------------------------------------------------------------
\* The service worker's message and storage listeners, and the views'
\* message listeners
\* ------------------------------------------------------------------------

VARIABLES
  workerInbox,   \* runtime messages delivered to the service worker
  workerEvents,  \* storage.onChanged events the service worker has to handle
  relayLog,      \* per run of a listener of the service worker: what it
                 \* received, what it sent, what it answered
  managerOpen,   \* whether the settings manager is open
  managerInbox,  \* runtime messages delivered to the settings manager
  popupInbox     \* runtime messages delivered to the popup

relayVars ==
  <<workerInbox, workerEvents, relayLog, managerOpen, managerInbox,
    popupInbox>>

\* A message {type} and a message {type, theme}.
Plain(type) == [type |-> type, theme |-> Undef]

Themed(type, theme) == [type |-> type, theme |-> theme]

\* runtime.sendMessage from the service worker reaches the listeners of the
\* open views; with no view open the promise rejects and the catch warns.
Broadcast(messages) ==
  /\ managerInbox' = IF managerOpen THEN managerInbox \o messages
                     ELSE managerInbox
  /\ popupInbox' = IF popupOpen THEN popupInbox \o messages ELSE popupInbox

\* A listener that forwards every message it handles twice.
RelayedTwice(message) ==
  IF message.type = "USER_CHANGED_THEME_PREFERENCE"
    THEN <<Themed("THEME_CHANGED", message.theme),
           Themed("THEME_CHANGED", message.theme)>>
  ELSE IF message.type = "SITE_DATA_DID_CHANGE"
    THEN <<Plain("SITE_DATA_DID_CHANGE_FORWARDED"),
           Plain("SITE_DATA_DID_CHANGE_FORWARDED")>>
  ELSE IF message.type = "SETTINGS_IMPORTED_SUCCESSFULLY"
    THEN <<Plain("RELOAD_POPUP_SETTINGS"), Plain("RELOAD_POPUP_SETTINGS")>>
  ELSE <<>>

\* What runtime.onMessage of the service worker sends for a message
\* (README.md 184-223).
Relayed(message) ==
  IF message.type = "USER_CHANGED_THEME_PREFERENCE"
    THEN <<Themed("THEME_CHANGED", message.theme)>>
  ELSE IF message.type = "SITE_DATA_DID_CHANGE"
    THEN <<Plain("SITE_DATA_DID_CHANGE_FORWARDED")>>
  ELSE IF message.type = "SETTINGS_IMPORTED_SUCCESSFULLY"
    THEN <<Plain("RELOAD_POPUP_SETTINGS")>>
  ELSE <<>>

\* What the listener passes to sendResponse (README.md 216-218).
Responded(message) ==
  IF message.type = "SETTINGS_IMPORTED_SUCCESSFULLY"
    THEN <<"Import notification processed by service worker.">>
    ELSE <<>>

\* runtime.onMessage of the service worker, for the oldest message.
WorkerOnMessage ==
  /\ workerInbox # <<>>
  /\ LET message == Head(workerInbox)
     IN  /\ Broadcast(Relayed(message))
         /\ relayLog' = Append(relayLog,
                               [received |-> message,
                                sent |-> Relayed(message),
                                response |-> Responded(message)])
  /\ workerInbox' = Tail(workerInbox)
  /\ UNCHANGED <<workerEvents, managerOpen>>

\* A stored value is truthy: an object, or a truthy string or number.
StoredTruthy(v) == v # NoRecord /\ (IsObject(v) \/ Truthy(v))

\* changes[key].newValue of a key, undefined when the key was removed.
NewValue(v) == IF v = NoRecord THEN Undef ELSE v

\* What storage.onChanged of the service worker sends for a change of the
\* store from old to new (README.md 229-269).
StorageRelayed(old, new) ==
  LET siteDataWasAltered ==
        \E k \in ChangedKeys(old, new) :
          /\ k # <<"theme">>
          /\ IncludesDot(k)
          /\ k # ALL_SETTINGS_KEY
          /\ IsObject(new[k]) \/ (StoredTruthy(old[k]) /\ new[k] = NoRecord)
  IN  SeqIf(old[<<"theme">>] # new[<<"theme">>],
            Themed("THEME_CHANGED", NewValue(new[<<"theme">>])))
      \o SeqIf(siteDataWasAltered, Plain("SITE_DATA_DID_CHANGE"))

\* A listener that does not look at areaName.
StorageRelayedFromAnyArea(areaName, old, new) == StorageRelayed(old, new)

\* The listener's test of areaName (README.md 230).
StorageOnChanged(areaName, old, new) ==
  IF areaName = "sync" THEN StorageRelayed(old, new) ELSE <<>>

\* A write of the store fires storage.onChanged in the service worker.
WorkerNotified(old, new) ==
  workerEvents' = IF old # new
                    THEN Append(workerEvents,
                                [area |-> "sync", old |-> old, new |-> new])
                    ELSE workerEvents

\* browser.storage.session as the injector's writes leave it: the page's
\* hostname holds {cspBlocked: true} or nothing (content.js 41-97).
SessionArea(flag) ==
  [k \in Keys |-> IF k = PageKey /\ flag THEN [cspBlocked |-> TRUE]
                                         ELSE NoRecord]

\* A write of the session area fires storage.onChanged in the service
\* worker, with areaName "session".
SessionNotified(old, new) ==
  workerEvents' = IF old # new
                    THEN Append(workerEvents,
                                [area |-> "session", old |-> SessionArea(old),
                                 new |-> SessionArea(new)])
                    ELSE workerEvents

\* storage.onChanged of the service worker, for the oldest event.
WorkerStorageOnChanged ==
  /\ workerEvents # <<>>
  /\ LET e == Head(workerEvents)
     IN  /\ Broadcast(StorageOnChanged(e.area, e.old, e.new))
         /\ relayLog' = Append(relayLog,
                               [received |-> Plain("storage.onChanged"),
                                sent |-> StorageOnChanged(e.area, e.old, e.new),
                                response |-> <<>>])
  /\ workerEvents' = Tail(workerEvents)
  /\ UNCHANGED <<workerInbox, managerOpen>>

\* runtime.onMessage of the settings manager (settings.js 597-605), for the
\* oldest message: SITE_DATA_DID_CHANGE_FORWARDED calls refreshSiteListPage;
\* THEME_CHANGED restyles the page, which holds no state of the model.
ManagerOnMessage ==
  /\ managerInbox # <<>>
  /\ IF Head(managerInbox).type = "SITE_DATA_DID_CHANGE_FORWARDED"
       THEN RefreshRequested
       ELSE UNCHANGED listEvents
  /\ managerInbox' = Tail(managerInbox)
  /\ UNCHANGED <<served, siteList, workerInbox, workerEvents, relayLog,
                 managerOpen, popupInbox>>

\* runtime.onMessage of the popup (popup.js 600-608), for the oldest
\* message: THEME_CHANGED restyles the popup, every other type is left
\* unhandled.
PopupOnMessage ==
  /\ popupInbox # <<>>
  /\ popupInbox' = Tail(popupInbox)
  /\ UNCHANGED <<tabUrl, controls, controlsEnabled, saves, popupOpen,
                 popupEvents, inbox, editLog, workerInbox, workerEvents,
                 relayLog, managerOpen, managerInbox>>

\* location.reload() of the settings manager: the messages on their way to
\* the old page are lost, and the new page's DOMContentLoaded handler calls
\* refreshSiteListPage (settings.js 63).
ManagerReloads ==
  /\ listEvents' = 1
  /\ managerInbox' = <<>>

\* ------------------------------------------------------------------------
\* popup.js: the storage.onChanged listener, await by await
\* ------------------------------------------------------------------------

VARIABLES
  popupRuns   \* runs of the popup's storage.onChanged listener under way

handlerVars == <<popupRuns>>

NoHandlerRuns == popupRuns = <<>>

\* The listener is called with a change of the sync area and runs up to
\* `await getCurrentTab()` (popup.js 610-613).
PopupChangeBegins ==
  /\ popupEvents # <<>>
  /\ Head(popupEvents).kind = "storage"
  /\ popupRuns' = Append(popupRuns,
                         [keys |-> Head(popupEvents).keys, pc |-> "getTab"])
  /\ popupEvents' = Tail(popupEvents)
  /\ UNCHANGED <<store, tabUrl, controls, controlsEnabled, saves, popupOpen,
                 inbox, editLog>>

\* getCurrentTab answers run i: the changed keys are looked through, and the
\* run ends or goes on to `await initI18n(); await loadSavedSettings()`
\* (popup.js 613-639).
PopupChangeGetsTab(i) ==
  /\ i \in DOMAIN popupRuns
  /\ popupRuns[i].pc = "getTab"
  /\ LET needsReloadForSettings ==
           \/ /\ IsHttpOrFile(tabUrl)
              /\ tabUrl.host \in popupRuns[i].keys
           \/ popupRuns[i].keys \cap GlobalKeys # {}
     IN  popupRuns' = IF needsReloadForSettings
                        THEN [popupRuns EXCEPT ![i].pc = "load"]
                        ELSE RemoveAt(popupRuns, i)
  /\ UNCHANGED <<store, tabUrl, controls, controlsEnabled, saves, popupOpen,
                 popupEvents, inbox, editLog>>

\* The last read of loadSavedSettings answers run i and the controls are
\* set from it (popup.js 541-596); the run is over.
PopupChangeLoads(i) ==
  /\ i \in DOMAIN popupRuns
  /\ popupRuns[i].pc = "load"
  /\ LoadSavedSettings
  /\ popupRuns' = RemoveAt(popupRuns, i)
  /\ UNCHANGED <<store, tabUrl, saves, popupOpen, popupEvents, inbox, editLog>>

\* ------------------------------------------------------------------------
\* Specifications
\* ------------------------------------------------------------------------

vars ==
  <<store, pageVars, timeVars, popupVars, settingsVars, dispatcherVars,
    listVars, relayVars, handlerVars>>

PageUrl == [scheme |-> "https", host |-> PageKey]

LocalUrl == [scheme |-> "http", host |-> LocalKey]

BlankUrl == [scheme |-> "about", host |-> EmptyHostKey]

InternalUrl == [scheme |-> "chrome", host |-> <<"extensions">>]

\* No popup is open.
NoPopup ==
  /\ tabUrl = PageUrl
  /\ controls = EmptyTuple
  /\ controlsEnabled = FALSE
  /\ saves = <<>>
  /\ popupOpen = FALSE
  /\ popupEvents = <<>>
  /\ inbox = <<>>
  /\ editLog = <<>>

InitSettings ==
  /\ exportFile = NoFile
  /\ resetPc = "idle"
  /\ roundTrip = NoRoundTrip
  /\ settingsOps = 0
  /\ statusMessage = ""
  /\ reloads = 0

InitDispatcher ==
  /\ lookups = <<>>
  /\ pushLog = <<>>

\* The settings manager's list is not looked at.
NoListView ==
  /\ served = NoArtifacts
  /\ siteList = <<>>
  /\ listEvents = 0

\* No runtime message is under way.
NoRelay ==
  /\ workerInbox = <<>>
  /\ workerEvents = <<>>
  /\ relayLog = <<>>
  /\ managerInbox = <<>>
  /\ popupInbox = <<>>

\* A store holding, at most, a record for the page's hostname.
OnlyPageRecord(tuples) ==
  {[k \in Keys |-> IF k = PageKey THEN r ELSE NoRecord] :
     r \in {NoRecord} \cup {SiteRecord(T, PageKey) : T \in tuples}}

outsidePage ==
  <<store, timeVars, popupVars, settingsVars, dispatcherVars, listVars, relayVars, handlerVars>>

outsideInjector ==
  <<store, popupVars, settingsVars, dispatcherVars, listVars, relayVars, handlerVars>>

\* Commands handled on one page.
MaxPageOps == 3

InitTime ==
  /\ mutationDebounceTimeout = 0
  /\ timers = {}
  /\ now = 0
  /\ deb = NoDeb

\* A page whose injector has just been evaluated: nothing injected, the
\* initial read of the store under way.
InitInjector ==
  /\ dom = NoArtifacts
  /\ cur = NullTuple
  /\ sessionFlag = FALSE
  /\ loadPc = "awaitGet"
  /\ loadData = NoRecord
  /\ observer = 0
  /\ mutationQueued = FALSE
  /\ lastRequest = NoRequest
  /\ lastResponse = <<>>
  /\ hist = NoHist
  /\ pageOps = 0

InitPage ==
  /\ store \in OnlyPageRecord({ArialLtr})
  /\ shadowParent \in Shapes
  /\ InitInjector
  /\ InitTime
  /\ NoPopup
  /\ InitSettings
  /\ InitDispatcher
  /\ NoRelay
  /\ NoHandlerRuns
  /\ NoListView
  /\ managerOpen = FALSE

PageCommand ==
  /\ pageOps < MaxPageOps
  /\ \E request \in Requests(PageTuples) : OnMessage(request)
  /\ UNCHANGED outsidePage

PageLoadGetResolves == LoadGetResolves /\ UNCHANGED outsidePage

PageLoadGetRejects == LoadGetRejects /\ UNCHANGED outsidePage

PageLoadContinues == LoadContinues /\ UNCHANGED outsidePage

NextPage ==
  \/ PageCommand
  \/ PageLoadGetResolves
  \/ PageLoadGetRejects
  \/ PageLoadContinues

\* One page and its injector, under arbitrary commands.
SpecPage == InitPage /\ [][NextPage]_vars

\* Time explored, in ms.
MaxTime == 900

\* Batches in one burst.
MaxBurst == 3

\* Commands handled while the observer is watched.
MaxDebounceOps == 2

DebounceTuples == {VazirRtl18, ArialLtr}

InitDebounce ==
  /\ store \in OnlyPageRecord(DebounceTuples)
  /\ shadowParent = [h \in Hosts |-> NoHost]
  /\ InitInjector
  /\ InitTime
  /\ NoPopup
  /\ InitSettings
  /\ InitDispatcher
  /\ NoRelay
  /\ NoHandlerRuns
  /\ NoListView
  /\ managerOpen = FALSE

DebCommand ==
  /\ pageOps < MaxDebounceOps
  /\ ~TimerDue
  /\ \E request \in Requests(DebounceTuples) : OnMessage(request)
  /\ UNCHANGED outsidePage

DebLoadGetResolves == LoadGetResolves /\ UNCHANGED outsidePage

DebLoadContinues == LoadContinues /\ UNCHANGED outsidePage

DebPageMutates ==
  /\ deb.burstLen < MaxBurst \/ OpensBurst
  /\ PageMutates
  /\ UNCHANGED outsideInjector

DebHandleMutations == HandleMutations /\ UNCHANGED outsideInjector

DebTimerFires == TimerFires /\ UNCHANGED outsideInjector

DebTick == (\E dt \in TickSteps : Tick(dt, MaxTime)) /\ UNCHANGED outsideInjector

NextDebounce ==
  \/ DebCommand
  \/ DebLoadGetResolves
  \/ DebLoadContinues
  \/ DebPageMutates
  \/ DebHandleMutations
  \/ DebTimerFires
  \/ DebTick

\* The injector's observer and debounce timer under a clock.
SpecDebounce == InitDebounce /\ [][NextDebounce]_vars

\* No page is modelled: the injector's variables stand still.
NoInjector ==
  /\ shadowParent = [h \in Hosts |-> NoHost]
  /\ dom = NoArtifacts
  /\ cur = NullTuple
  /\ sessionFlag = FALSE
  /\ loadPc = "none"
  /\ loadData = NoRecord
  /\ observer = 0
  /\ mutationQueued = FALSE
  /\ lastRequest = NoRequest
  /\ lastResponse = <<>>
  /\ hist = NoHist
  /\ pageOps = 0

\* The popup, just opened on the active tab: loadSavedSettings has run.
OpenPopup ==
  /\ tabUrl = PageUrl
  /\ controls = LoadedControls(store[PageKey])
  /\ controlsEnabled = TRUE
  /\ saves = <<>>
  /\ popupOpen = TRUE
  /\ popupEvents = <<>>
  /\ inbox = <<>>
  /\ editLog = <<>>

\* Edits made in one run of the popup.
MaxEdits == 2

\* URLs the active tab visits.
TabUrls == {PageUrl, LocalUrl, BlankUrl}

\* Weights chosen in the weight selector.
ChosenWeights == {Empty, NumStr(700 * Scale)}

outsidePopup ==
  <<pageVars, timeVars, settingsVars, dispatcherVars, listVars, relayVars, handlerVars>>

InitPopup ==
  /\ store \in OnlyPageRecord({VazirRtl18})
  /\ OpenPopup
  /\ NoInjector
  /\ InitTime
  /\ InitSettings
  /\ InitDispatcher
  /\ NoRelay
  /\ NoHandlerRuns
  /\ NoListView
  /\ managerOpen = FALSE

CanEdit == Len(editLog) < MaxEdits

PopFontSelectChange ==
  /\ CanEdit
  /\ \E f \in FONT_LIST : FontSelectChange(f)
  /\ UNCHANGED outsidePopup

PopFontWeightChange ==
  /\ CanEdit
  /\ \E w \in ChosenWeights : FontWeightChange(w)
  /\ UNCHANGED outsidePopup

PopDirectionClick ==
  /\ CanEdit
  /\ \E d \in {"rtl", "ltr"} : DirectionClick(d)
  /\ UNCHANGED outsidePopup

PopNumberInput ==
  /\ CanEdit
  /\ \E field \in NumberFields : \E text \in TypedTexts(field) :
       NumberInput(field, text)
  /\ UNCHANGED outsidePopup

PopNumberChange ==
  /\ CanEdit
  /\ \E field \in NumberFields : NumberChange(field)
  /\ UNCHANGED outsidePopup

PopStepperClick ==
  /\ CanEdit
  /\ \E field \in NumberFields : \E up \in BOOLEAN : StepperClick(field, up)
  /\ UNCHANGED outsidePopup

PopResetButtonClick ==
  /\ CanEdit
  /\ ResetButtonClick
  /\ UNCHANGED outsidePopup

PopSaveGetsTab == (\E i \in DOMAIN saves : SaveGetsTab(i)) /\ UNCHANGED outsidePopup

PopSaveWrites == (\E i \in DOMAIN saves : SaveWrites(i)) /\ UNCHANGED outsidePopup

PopSaveSetRejects ==
  (\E i \in DOMAIN saves : SaveSetRejects(i)) /\ UNCHANGED outsidePopup

PopSaveSends == (\E i \in DOMAIN saves : SaveSends(i)) /\ UNCHANGED outsidePopup

PopHandlesEvent == PopupHandlesEvent /\ UNCHANGED outsidePopup

\* The tab leaves the page the popup was opened on.
PopTabNavigates ==
  /\ tabUrl = PageUrl
  /\ \E url \in TabUrls : TabNavigates(url)
  /\ UNCHANGED outsidePopup

NextPopup ==
  \/ PopFontSelectChange
  \/ PopFontWeightChange
  \/ PopDirectionClick
  \/ PopNumberInput
  \/ PopNumberChange
  \/ PopStepperClick
  \/ PopResetButtonClick
  \/ PopSaveGetsTab
  \/ PopSaveWrites
  \/ PopSaveSetRejects
  \/ PopSaveSends
  \/ PopHandlesEvent
  \/ PopTabNavigates

\* The popup under a user's edits, with the tab free to navigate.
SpecPopup == InitPopup /\ [][NextPopup]_vars

\* Operations of the settings manager in one run.
MaxSettingsOps == 4

\* A document written by hand: a record the popup would not write.
HandWrittenFile ==
  JsonFile([k \in {PageKey} |-> SiteRecord(ImportedNumericWeight, PageKey)])

RobotoLtr == Tuple(Str("Roboto"), Str("ltr"), Empty, Empty, Empty, Empty, Empty)

\* Stores the editors can have written: records of two sites, a theme.
EditedStores ==
  {[k \in Keys |->
      CASE k = PageKey -> p
        [] k = LocalKey -> l
        [] k = <<"theme">> -> t
        [] OTHER -> NoRecord] :
     p \in {NoRecord, SiteRecord(VazirRtl18, PageKey)},
     l \in {NoRecord, SiteRecord(RobotoLtr, LocalKey)},
     t \in {NoRecord, Str("dark")}}

outsideSettings ==
  <<pageVars, timeVars, tabUrl, controls, controlsEnabled, saves, popupOpen,
    inbox, editLog, dispatcherVars, listVars, relayVars, handlerVars>>

InitSettingsManager ==
  /\ store \in EditedStores
  /\ NoPopup
  /\ NoInjector
  /\ InitTime
  /\ InitSettings
  /\ InitDispatcher
  /\ NoRelay
  /\ NoHandlerRuns
  /\ NoListView
  /\ managerOpen = TRUE

CanOperate == settingsOps < MaxSettingsOps

SetRemoveSite ==
  /\ CanOperate
  /\ \E host \in Keys : RemoveSite(host)
  /\ UNCHANGED outsideSettings

SetExport == CanOperate /\ HandleExportSettings /\ UNCHANGED outsideSettings

SetImport ==
  /\ CanOperate
  /\ \E file \in {exportFile, NoFile, HandWrittenFile} :
       HandleImportSettings(file)
  /\ UNCHANGED outsideSettings

SetResetAllClears == CanOperate /\ ResetAllClears /\ UNCHANGED outsideSettings

SetResetAllSetsDefaults == ResetAllSetsDefaults /\ UNCHANGED outsideSettings

NextSettings ==
  \/ SetRemoveSite
  \/ SetExport
  \/ SetImport
  \/ SetResetAllClears
  \/ SetResetAllSetsDefaults

\* The settings manager on stores the editors have written.
SpecSettings == InitSettingsManager /\ [][NextSettings]_vars

\* Runs of the tabs.onUpdated listener.
MaxTabEvents == 3

\* Site removals while the listener runs.
MaxRemovals == 1

outsideDispatcher ==
  <<pageVars, timeVars, popupVars, settingsVars, listVars, relayVars, handlerVars>>

InitTabs ==
  /\ store \in EditedStores
  /\ NoPopup
  /\ NoInjector
  /\ InitTime
  /\ InitSettings
  /\ InitDispatcher
  /\ NoRelay
  /\ NoHandlerRuns
  /\ NoListView
  /\ managerOpen = TRUE

DispTabsOnUpdated ==
  /\ Len(lookups) + Len(pushLog) < MaxTabEvents
  /\ \E status \in {"loading", "complete"} :
       \E url \in {PageUrl, LocalUrl, BlankUrl, InternalUrl} :
         TabsOnUpdated(status, url)
  /\ UNCHANGED <<pageVars, timeVars, settingsVars, tabUrl, controls,
                 controlsEnabled, saves, popupOpen, popupEvents, editLog,
                 listVars, relayVars, handlerVars>>

DispLookupResolves ==
  /\ \E i \in DOMAIN lookups : LookupResolves(i)
  /\ UNCHANGED <<pageVars, timeVars, settingsVars, tabUrl, controls,
                 controlsEnabled, saves, popupOpen, popupEvents, editLog,
                 listVars, relayVars, handlerVars>>

DispLookupRejects ==
  /\ \E i \in DOMAIN lookups : LookupRejects(i)
  /\ UNCHANGED <<pageVars, timeVars, settingsVars, tabUrl, controls,
                 controlsEnabled, saves, popupOpen, popupEvents, editLog,
                 listVars, relayVars, handlerVars>>

DispRemoveSite ==
  /\ settingsOps < MaxRemovals
  /\ \E host \in Keys : RemoveSite(host)
  /\ UNCHANGED outsideSettings

NextDispatcher ==
  \/ DispTabsOnUpdated
  \/ DispLookupResolves
  \/ DispLookupRejects
  \/ DispRemoveSite

\* The service worker's fallback push while sites are removed.
SpecDispatcher == InitTabs /\ [][NextDispatcher]_vars

\* Edits and removals in one run of the popup, the settings manager and
\* the page's injector together.
MaxSyncEdits == 1

MaxSyncOps == 2

outsideViews == <<timeVars, dispatcherVars, listVars, relayVars, handlerVars>>

InitSync ==
  /\ store \in OnlyPageRecord({VazirRtl18})
  /\ OpenPopup
  /\ shadowParent = [h \in Hosts |-> NoHost]
  /\ InitInjector
  /\ InitTime
  /\ InitSettings
  /\ InitDispatcher
  /\ NoRelay
  /\ NoHandlerRuns
  /\ NoListView
  /\ managerOpen = TRUE

SyncDirectionClick ==
  /\ Len(editLog) < MaxSyncEdits
  /\ \E d \in {"rtl", "ltr"} : DirectionClick(d)
  /\ UNCHANGED <<pageVars, settingsVars, outsideViews>>

SyncResetButtonClick ==
  /\ Len(editLog) < MaxSyncEdits
  /\ ResetButtonClick
  /\ UNCHANGED <<pageVars, settingsVars, outsideViews>>

SyncSaveGetsTab ==
  /\ \E i \in DOMAIN saves : SaveGetsTab(i)
  /\ UNCHANGED <<pageVars, settingsVars, outsideViews>>

SyncSaveWrites ==
  /\ \E i \in DOMAIN saves : SaveWrites(i)
  /\ UNCHANGED <<pageVars, settingsVars, outsideViews>>

SyncSaveSends ==
  /\ \E i \in DOMAIN saves : SaveSends(i)
  /\ UNCHANGED <<pageVars, settingsVars, outsideViews>>

SyncPopupHandlesEvent ==
  /\ PopupHandlesEvent
  /\ UNCHANGED <<pageVars, settingsVars, outsideViews>>

\* The page's injector receives the oldest message sent to its tab.
SyncInjectorReceives ==
  /\ inbox # <<>>
  /\ OnMessage(Head(inbox))
  /\ inbox' = Tail(inbox)
  /\ UNCHANGED <<store, tabUrl, controls, controlsEnabled, saves, popupOpen,
                 popupEvents, editLog, settingsVars, outsideViews>>

SyncLoadGetResolves == LoadGetResolves /\ UNCHANGED outsidePage

SyncLoadContinues == LoadContinues /\ UNCHANGED outsidePage

SyncRemoveSite ==
  /\ settingsOps < MaxSyncOps
  /\ \E host \in Keys : RemoveSite(host)
  /\ UNCHANGED outsideSettings

SyncImport ==
  /\ settingsOps < MaxSyncOps
  /\ HandleImportSettings(HandWrittenFile)
  /\ UNCHANGED outsideSettings

NextSync ==
  \/ SyncDirectionClick
  \/ SyncResetButtonClick
  \/ SyncSaveGetsTab
  \/ SyncSaveWrites
  \/ SyncSaveSends
  \/ SyncPopupHandlesEvent
  \/ SyncInjectorReceives
  \/ SyncLoadGetResolves
  \/ SyncLoadContinues
  \/ SyncRemoveSite
  \/ SyncImport

\* One hostname's record, its page, the popup showing it and the settings
\* manager.
SpecSync == InitSync /\ [][NextSync]_vars

\* Tab updates of one page load.
MaxLoadEvents == 2

\* Pages as the server sends them: with or without dir="rtl" on <html>.
ServedPages == {NoArtifacts, [NoArtifacts EXCEPT !.dirHtml = Str("rtl")]}

\* The record the popup's reset button writes: every field "".
EmptyRecord == SiteRecord(EmptyTuple, PageKey)

InitLoad ==
  /\ store \in OnlyPageRecord({EmptyTuple})
  /\ shadowParent \in Shapes
  /\ dom \in ServedPages
  /\ served = dom
  /\ cur = NullTuple
  /\ sessionFlag = FALSE
  /\ loadPc = "awaitGet"
  /\ loadData = NoRecord
  /\ observer = 0
  /\ mutationQueued = FALSE
  /\ lastRequest = NoRequest
  /\ lastResponse = <<>>
  /\ hist = NoHist
  /\ pageOps = 0
  /\ siteList = <<>>
  /\ listEvents = 1
  /\ InitTime
  /\ NoPopup
  /\ InitSettings
  /\ InitDispatcher
  /\ NoRelay
  /\ NoHandlerRuns
  /\ managerOpen = TRUE

LoadTabsOnUpdated ==
  /\ Len(lookups) + Len(pushLog) < MaxLoadEvents
  /\ \E status \in {"loading", "complete"} : TabsOnUpdated(status, PageUrl)
  /\ UNCHANGED <<pageVars, timeVars, settingsVars, tabUrl, controls,
                 controlsEnabled, saves, popupOpen, popupEvents, editLog,
                 listVars, relayVars, handlerVars>>

LoadLookupResolves ==
  /\ \E i \in DOMAIN lookups : LookupResolves(i)
  /\ UNCHANGED <<pageVars, timeVars, settingsVars, tabUrl, controls,
                 controlsEnabled, saves, popupOpen, popupEvents, editLog,
                 listVars, relayVars, handlerVars>>

LoadLookupRejects ==
  /\ \E i \in DOMAIN lookups : LookupRejects(i)
  /\ UNCHANGED <<pageVars, timeVars, settingsVars, tabUrl, controls,
                 controlsEnabled, saves, popupOpen, popupEvents, editLog,
                 listVars, relayVars, handlerVars>>

LoadInjectorReceives ==
  /\ inbox # <<>>
  /\ OnMessage(Head(inbox))
  /\ inbox' = Tail(inbox)
  /\ UNCHANGED <<store, tabUrl, controls, controlsEnabled, saves, popupOpen,
                 popupEvents, editLog, settingsVars, outsideViews>>

LoadGetAnswers == LoadGetResolves /\ UNCHANGED outsidePage

LoadGetFails == LoadGetRejects /\ UNCHANGED outsidePage

LoadRuns == LoadContinues /\ UNCHANGED outsidePage

LoadRefreshSiteList ==
  /\ RefreshSiteListPage
  /\ UNCHANGED <<store, pageVars, timeVars, popupVars, settingsVars,
                 dispatcherVars, relayVars, handlerVars>>

NextLoad ==
  \/ LoadTabsOnUpdated
  \/ LoadLookupResolves
  \/ LoadLookupRejects
  \/ LoadInjectorReceives
  \/ LoadGetAnswers
  \/ LoadGetFails
  \/ LoadRuns
  \/ LoadRefreshSiteList

\* A page load on a hostname without a record or with an all-empty record:
\* the injector's initial read, the service worker's push and the settings
\* manager's list.
SpecLoad == InitLoad /\ [][NextLoad]_vars

\* Edits of the example: the font, the direction, the size typed and
\* committed.
MaxExampleEdits == 4

\* A loaded page of example.com in the active tab: the injector's initial
\* read found no record.
LoadedInjector ==
  /\ dom = NoArtifacts
  /\ cur = NullTuple
  /\ sessionFlag = FALSE
  /\ loadPc = "done"
  /\ loadData = NoRecord
  /\ observer = StartObservingDOM
  /\ mutationQueued = FALSE
  /\ lastRequest = NoRequest
  /\ lastResponse = <<>>
  /\ hist = NoHist
  /\ pageOps = 0

InitExample ==
  /\ store = StoreClear
  /\ shadowParent \in Shapes
  /\ LoadedInjector
  /\ OpenPopup
  /\ InitTime
  /\ InitSettings
  /\ InitDispatcher
  /\ NoRelay
  /\ NoHandlerRuns
  /\ NoListView
  /\ managerOpen = FALSE

\* The user acts when the previous edit has been saved and delivered.
ExampleQuiet == saves = <<>> /\ popupEvents = <<>> /\ inbox = <<>>

CanEditExample == ExampleQuiet /\ Len(editLog) < MaxExampleEdits

ExFontSelectChange ==
  /\ CanEditExample
  /\ controls.font # Str("Vazirmatn")
  /\ FontSelectChange("Vazirmatn")
  /\ UNCHANGED outsidePopup

ExDirectionClick ==
  /\ CanEditExample
  /\ controls.direction # Str("rtl")
  /\ DirectionClick("rtl")
  /\ UNCHANGED outsidePopup

ExNumberInput ==
  /\ CanEditExample
  /\ controls.fontSize = Empty
  /\ NumberInput("fontSize", NumStr(18 * Scale))
  /\ UNCHANGED outsidePopup

ExNumberChange ==
  /\ CanEditExample
  /\ controls.fontSize # Empty
  /\ NumberChange("fontSize")
  /\ UNCHANGED outsidePopup

ExSaveGetsTab == (\E i \in DOMAIN saves : SaveGetsTab(i)) /\ UNCHANGED outsidePopup

ExSaveWrites == (\E i \in DOMAIN saves : SaveWrites(i)) /\ UNCHANGED outsidePopup

ExSaveSends == (\E i \in DOMAIN saves : SaveSends(i)) /\ UNCHANGED outsidePopup

ExPopupHandlesEvent == PopupHandlesEvent /\ UNCHANGED outsidePopup

ExInjectorReceives ==
  /\ inbox # <<>>
  /\ OnMessage(Head(inbox))
  /\ inbox' = Tail(inbox)
  /\ UNCHANGED <<store, tabUrl, controls, controlsEnabled, saves, popupOpen,
                 popupEvents, editLog, settingsVars, outsideViews>>

NextExample ==
  \/ ExFontSelectChange
  \/ ExDirectionClick
  \/ ExNumberInput
  \/ ExNumberChange
  \/ ExSaveGetsTab
  \/ ExSaveWrites
  \/ ExSaveSends
  \/ ExPopupHandlesEvent
  \/ ExInjectorReceives

\* The example: on a loaded tab of example.com without a record the user
\* chooses the font, the direction and the size in the popup, one edit
\* after the other.
SpecExample == InitExample /\ [][NextExample]_vars

\* Popup edits made around one reset-all.
MaxResetEdits == 1

\* Reset-all runs of the settings manager.
MaxResets == 1

InitReset ==
  /\ store \in EditedStores
  /\ OpenPopup
  /\ NoInjector
  /\ InitTime
  /\ InitSettings
  /\ InitDispatcher
  /\ NoRelay
  /\ NoHandlerRuns
  /\ NoListView
  /\ managerOpen = TRUE

ResDirectionClick ==
  /\ Len(editLog) < MaxResetEdits
  /\ \E d \in {"rtl", "ltr"} : DirectionClick(d)
  /\ UNCHANGED outsidePopup

ResSaveGetsTab == (\E i \in DOMAIN saves : SaveGetsTab(i)) /\ UNCHANGED outsidePopup

ResSaveWrites == (\E i \in DOMAIN saves : SaveWrites(i)) /\ UNCHANGED outsidePopup

ResSaveSends == (\E i \in DOMAIN saves : SaveSends(i)) /\ UNCHANGED outsidePopup

ResPopupHandlesEvent == PopupHandlesEvent /\ UNCHANGED outsidePopup

\* The user confirms the reset-all dialog.
ResResetAllClears ==
  /\ settingsOps < MaxResets
  /\ ResetAllClears
  /\ UNCHANGED outsideSettings

ResResetAllSetsDefaults == ResetAllSetsDefaults /\ UNCHANGED outsideSettings

NextReset ==
  \/ ResDirectionClick
  \/ ResSaveGetsTab
  \/ ResSaveWrites
  \/ ResSaveSends
  \/ ResPopupHandlesEvent
  \/ ResResetAllClears
  \/ ResResetAllSetsDefaults

\* A reset-all of the settings manager while the popup saves an edit.
SpecReset == InitReset /\ [][NextReset]_vars

\* Popup edits and removals while the settings manager shows its list.
MaxListEdits == 1

MaxListRemovals == 1

\* Stores the list is built from: records of three hostnames, a theme and
\* the backup key.
ListStores ==
  {[k \in Keys |->
      CASE k = PageKey -> p
        [] k = LocalKey -> l
        [] k = OtherKey -> o
        [] k = <<"theme">> -> t
        [] k = ALL_SETTINGS_KEY -> b
        [] OTHER -> NoRecord] :
     p \in {NoRecord, SiteRecord(VazirRtl18, PageKey)},
     l \in {NoRecord, SiteRecord(RobotoLtr, LocalKey)},
     o \in {NoRecord, SiteRecord(RobotoLtr, OtherKey)},
     t \in {NoRecord, Str("dark")},
     b \in {NoRecord, [sites |-> 0]}}

\* The settings manager has just been opened (its DOMContentLoaded handler
\* has called refreshSiteListPage); the popup is open on one of the pages.
InitList ==
  /\ store \in ListStores
  /\ tabUrl \in {PageUrl, LocalUrl}
  /\ controls = LoadedControls(store[tabUrl.host])
  /\ controlsEnabled = TRUE
  /\ saves = <<>>
  /\ popupOpen = TRUE
  /\ popupEvents = <<>>
  /\ inbox = <<>>
  /\ editLog = <<>>
  /\ served = NoArtifacts
  /\ siteList = <<>>
  /\ listEvents = 1
  /\ NoInjector
  /\ InitTime
  /\ InitSettings
  /\ InitDispatcher
  /\ NoRelay
  /\ NoHandlerRuns
  /\ managerOpen = TRUE

outsidePopupAndList ==
  <<pageVars, timeVars, settingsVars, dispatcherVars, relayVars, handlerVars>>

ListDirectionClick ==
  /\ Len(editLog) < MaxListEdits
  /\ \E d \in {"rtl", "ltr"} : DirectionClick(d)
  /\ UNCHANGED outsidePopup

ListSaveGetsTab ==
  (\E i \in DOMAIN saves : SaveGetsTab(i)) /\ UNCHANGED outsidePopup

ListSaveWrites ==
  /\ \E i \in DOMAIN saves : SaveWrites(i)
  /\ ListNotified(ChangedKeys(store, store'))
  /\ UNCHANGED <<outsidePopupAndList, served, siteList>>

ListSaveSends ==
  (\E i \in DOMAIN saves : SaveSends(i)) /\ UNCHANGED outsidePopup

ListPopupHandlesEvent == PopupHandlesEvent /\ UNCHANGED outsidePopup

ListRemoveSite ==
  /\ settingsOps < MaxListRemovals
  /\ \E i \in DOMAIN siteList : RemoveSite(siteList[i])
  /\ ListNotified(ChangedKeys(store, store'))
  /\ UNCHANGED <<pageVars, timeVars, tabUrl, controls, controlsEnabled, saves,
                 popupOpen, inbox, editLog, dispatcherVars, served, siteList,
                 relayVars, handlerVars>>

ListRefresh ==
  /\ RefreshSiteListPage
  /\ UNCHANGED <<store, pageVars, timeVars, popupVars, settingsVars,
                 dispatcherVars, relayVars, handlerVars>>

NextList ==
  \/ ListDirectionClick
  \/ ListSaveGetsTab
  \/ ListSaveWrites
  \/ ListSaveSends
  \/ ListPopupHandlesEvent
  \/ ListRemoveSite
  \/ ListRefresh

\* The settings manager's list while the popup writes and sites are removed.
SpecList == InitList /\ [][NextList]_vars

\* Runs of the service worker's listeners.
MaxMessages == 3

\* Imports while messages are relayed.
MaxImports == 1

\* Messages other parts of the extension send to the service worker.
WorkerMessages ==
  {Themed("USER_CHANGED_THEME_PREFERENCE", Str("dark")),
   Themed("USER_CHANGED_THEME_PREFERENCE", Str("light")),
   Plain("SITE_DATA_DID_CHANGE"),
   Plain("SETTINGS_IMPORTED_SUCCESSFULLY"),
   Plain("PING")}

\* A document that sets the theme.
ThemeFile == JsonFile([k \in {<<"theme">>} |-> Str("light")])

InitRelay ==
  /\ store \in EditedStores
  /\ OpenPopup \/ NoPopup
  /\ managerOpen \in BOOLEAN
  /\ served = NoArtifacts
  /\ siteList = <<>>
  /\ listEvents = (IF managerOpen THEN 1 ELSE 0)
  /\ workerInbox = <<>>
  /\ workerEvents = <<>>
  /\ relayLog = <<>>
  /\ managerInbox = <<>>
  /\ popupInbox = <<>>
  /\ NoHandlerRuns
  /\ lookups = <<>>
  /\ pushLog = <<>>
  /\ NoInjector
  /\ InitTime
  /\ InitSettings

\* Another part of the extension calls runtime.sendMessage(message).
RelDeliver ==
  /\ Len(workerInbox) + Len(relayLog) < MaxMessages
  /\ \E message \in WorkerMessages :
       workerInbox' = Append(workerInbox, message)
  /\ UNCHANGED <<store, pageVars, timeVars, popupVars, settingsVars,
                 dispatcherVars, listVars, workerEvents, relayLog, managerOpen,
                 managerInbox, popupInbox, handlerVars>>

RelWorkerOnMessage ==
  /\ WorkerOnMessage
  /\ UNCHANGED <<store, pageVars, timeVars, popupVars, settingsVars,
                 dispatcherVars, listVars, handlerVars>>

RelWorkerStorageOnChanged ==
  /\ WorkerStorageOnChanged
  /\ UNCHANGED <<store, pageVars, timeVars, popupVars, settingsVars,
                 dispatcherVars, listVars, handlerVars>>

RelManagerOnMessage ==
  /\ ManagerOnMessage
  /\ UNCHANGED <<store, pageVars, timeVars, popupVars, settingsVars,
                 dispatcherVars, handlerVars>>

RelPopupOnMessage ==
  /\ PopupOnMessage
  /\ UNCHANGED <<store, pageVars, timeVars, settingsVars, dispatcherVars,
                 listVars, handlerVars>>

RelPopupHandlesEvent == PopupHandlesEvent /\ UNCHANGED outsidePopup

RelRefresh ==
  /\ RefreshSiteListPage
  /\ UNCHANGED <<store, pageVars, timeVars, popupVars, settingsVars,
                 dispatcherVars, relayVars, handlerVars>>

\* The user imports a file in the settings manager; after a successful
\* import the page reloads.
RelImport ==
  /\ managerOpen
  /\ settingsOps < MaxImports
  /\ \E file \in {NoFile, HandWrittenFile, ThemeFile} :
       /\ HandleImportSettings(file)
       /\ IF file.ok THEN ManagerReloads
                     ELSE UNCHANGED <<listEvents, managerInbox>>
  /\ WorkerNotified(store, store')
  /\ UNCHANGED <<pageVars, timeVars, tabUrl, controls, controlsEnabled, saves,
                 popupOpen, inbox, editLog, dispatcherVars, served, siteList,
                 workerInbox, relayLog, managerOpen, popupInbox, handlerVars>>

NextRelay ==
  \/ RelDeliver
  \/ RelWorkerOnMessage
  \/ RelWorkerStorageOnChanged
  \/ RelManagerOnMessage
  \/ RelPopupOnMessage
  \/ RelPopupHandlesEvent
  \/ RelRefresh
  \/ RelImport

\* The service worker relaying messages and storage changes to the open
\* views while the settings manager imports.
SpecRelay == InitRelay /\ [][NextRelay]_vars

\* Commands handled on a page whose font links load or fail.
MaxSessionOps == 3

SessionTuples == {EmptyTuple, VazirRtl18, ArialLtr, ImportedNumericWeight}

\* The host's SessionFlag may be left from an earlier page of the host.
InitSession ==
  /\ store \in OnlyPageRecord({VazirRtl18})
  /\ shadowParent \in Shapes
  /\ dom = NoArtifacts
  /\ cur = NullTuple
  /\ sessionFlag \in BOOLEAN
  /\ loadPc = "awaitGet"
  /\ loadData = NoRecord
  /\ observer = 0
  /\ mutationQueued = FALSE
  /\ lastRequest = NoRequest
  /\ lastResponse = <<>>
  /\ hist = NoHist
  /\ pageOps = 0
  /\ InitTime
  /\ NoPopup
  /\ InitSettings
  /\ InitDispatcher
  /\ NoRelay
  /\ NoHandlerRuns
  /\ NoListView
  /\ managerOpen = FALSE

SesCommand ==
  /\ pageOps < MaxSessionOps
  /\ \E request \in Requests(SessionTuples) : OnMessage(request)
  /\ UNCHANGED outsidePage

SesLoadGetResolves == LoadGetResolves /\ UNCHANGED outsidePage

SesLoadGetRejects == LoadGetRejects /\ UNCHANGED outsidePage

SesLoadContinues == LoadContinues /\ UNCHANGED outsidePage

SesLinkLoads == LinkLoads /\ UNCHANGED outsidePage

SesLinkFails == LinkFails /\ UNCHANGED outsidePage

NextSession ==
  \/ SesCommand
  \/ SesLoadGetResolves
  \/ SesLoadGetRejects
  \/ SesLoadContinues
  \/ SesLinkLoads
  \/ SesLinkFails

\* One page and its injector under arbitrary commands, with the font links
\* loading or failing.
SpecSession == InitSession /\ [][NextSession]_vars

\* Commands handled while mutations are re-applied.
MaxReapplyOps == 2

\* The clock's horizon and the batches in one burst while mutations are
\* re-applied.
MaxReapplyTime == 600

MaxReapplyBurst == 2

ReapplyTuples == {EmptyTuple, VazirRtl18, ArialLtr}

InitReapply ==
  /\ store \in OnlyPageRecord({EmptyTuple, VazirRtl18})
  /\ shadowParent = [h \in Hosts |-> NoHost]
  /\ dom = NoArtifacts
  /\ cur = NullTuple
  /\ sessionFlag \in BOOLEAN
  /\ loadPc = "awaitGet"
  /\ loadData = NoRecord
  /\ observer = 0
  /\ mutationQueued = FALSE
  /\ lastRequest = NoRequest
  /\ lastResponse = <<>>
  /\ hist = NoHist
  /\ pageOps = 0
  /\ InitTime
  /\ NoPopup
  /\ InitSettings
  /\ InitDispatcher
  /\ NoRelay
  /\ NoHandlerRuns
  /\ NoListView
  /\ managerOpen = FALSE

RepCommand ==
  /\ pageOps < MaxReapplyOps
  /\ ~TimerDue
  /\ \E request \in Requests(ReapplyTuples) : OnMessage(request)
  /\ UNCHANGED outsidePage

RepLoadGetResolves == LoadGetResolves /\ UNCHANGED outsidePage

RepLoadGetRejects == LoadGetRejects /\ UNCHANGED outsidePage

RepLoadContinues == LoadContinues /\ UNCHANGED outsidePage

RepPageMutates ==
  /\ deb.burstLen < MaxReapplyBurst \/ OpensBurst
  /\ PageMutates
  /\ UNCHANGED outsideInjector

RepHandleMutations == HandleMutations /\ UNCHANGED outsideInjector

RepTimerFires == TimerFires /\ UNCHANGED outsideInjector

RepTick == (\E dt \in TickSteps : Tick(dt, MaxReapplyTime)) /\ UNCHANGED outsideInjector

NextReapply ==
  \/ RepCommand
  \/ RepLoadGetResolves
  \/ RepLoadGetRejects
  \/ RepLoadContinues
  \/ RepPageMutates
  \/ RepHandleMutations
  \/ RepTimerFires
  \/ RepTick

\* The debounce timer firing between commands that apply empty and
\* non-empty tuples and resets.
SpecReapply == InitReapply /\ [][NextReapply]_vars

\* Edits made in the popup while the store may refuse a write.
MaxErrorEdits == 2

InitStorageError ==
  /\ store = StoreClear
  /\ shadowParent = [h \in Hosts |-> NoHost]
  /\ LoadedInjector
  /\ OpenPopup
  /\ InitTime
  /\ InitSettings
  /\ InitDispatcher
  /\ NoRelay
  /\ NoHandlerRuns
  /\ NoListView
  /\ managerOpen = FALSE

ErrFontSelectChange ==
  /\ Len(editLog) < MaxErrorEdits
  /\ FontSelectChange("Vazirmatn")
  /\ UNCHANGED outsidePopup

ErrDirectionClick ==
  /\ Len(editLog) < MaxErrorEdits
  /\ \E d \in {"rtl", "ltr"} : DirectionClick(d)
  /\ UNCHANGED outsidePopup

ErrSaveGetsTab == (\E i \in DOMAIN saves : SaveGetsTab(i)) /\ UNCHANGED outsidePopup

ErrSaveWrites == (\E i \in DOMAIN saves : SaveWrites(i)) /\ UNCHANGED outsidePopup

ErrSaveSetRejects ==
  (\E i \in DOMAIN saves : SaveSetRejects(i)) /\ UNCHANGED outsidePopup

ErrSaveSends == (\E i \in DOMAIN saves : SaveSends(i)) /\ UNCHANGED outsidePopup

ErrPopupHandlesEvent == PopupHandlesEvent /\ UNCHANGED outsidePopup

ErrInjectorReceives ==
  /\ inbox # <<>>
  /\ OnMessage(Head(inbox))
  /\ inbox' = Tail(inbox)
  /\ UNCHANGED <<store, tabUrl, controls, controlsEnabled, saves, popupOpen,
                 popupEvents, editLog, settingsVars, outsideViews>>

NextStorageError ==
  \/ ErrFontSelectChange
  \/ ErrDirectionClick
  \/ ErrSaveGetsTab
  \/ ErrSaveWrites
  \/ ErrSaveSetRejects
  \/ ErrSaveSends
  \/ ErrPopupHandlesEvent
  \/ ErrInjectorReceives

\* Edits in the popup on a loaded page while storage.sync.set may reject.
SpecStorageError == InitStorageError /\ [][NextStorageError]_vars

\* Edits and removals while the views handle store changes.
MaxHandlerEdits == 2

MaxHandlerRemovals == 1

\* The popup and the settings manager are open and settled.
InitHandlers ==
  /\ store \in OnlyPageRecord({VazirRtl18})
  /\ OpenPopup
  /\ served = NoArtifacts
  /\ siteList = SiteEntries(store)
  /\ listEvents = 0
  /\ NoInjector
  /\ InitTime
  /\ InitSettings
  /\ InitDispatcher
  /\ NoRelay
  /\ NoHandlerRuns
  /\ managerOpen = TRUE

outsidePopupRuns ==
  <<pageVars, timeVars, settingsVars, dispatcherVars, listVars, relayVars>>

HanDirectionClick ==
  /\ Len(editLog) < MaxHandlerEdits
  /\ \E d \in {"rtl", "ltr"} : DirectionClick(d)
  /\ UNCHANGED outsidePopup

HanSaveGetsTab ==
  (\E i \in DOMAIN saves : SaveGetsTab(i)) /\ UNCHANGED outsidePopup

HanSaveWrites ==
  /\ \E i \in DOMAIN saves : SaveWrites(i)
  /\ ListNotified(ChangedKeys(store, store'))
  /\ UNCHANGED <<outsidePopupAndList, served, siteList>>

HanSaveSends ==
  (\E i \in DOMAIN saves : SaveSends(i)) /\ UNCHANGED outsidePopup

HanRemoveSite ==
  /\ settingsOps < MaxHandlerRemovals
  /\ \E k \in ListedSites(store) : RemoveSite(k)
  /\ ListNotified(ChangedKeys(store, store'))
  /\ UNCHANGED <<pageVars, timeVars, tabUrl, controls, controlsEnabled, saves,
                 popupOpen, inbox, editLog, dispatcherVars, served, siteList,
                 relayVars, handlerVars>>

HanRefresh ==
  /\ RefreshSiteListPage
  /\ UNCHANGED <<store, pageVars, timeVars, popupVars, settingsVars,
                 dispatcherVars, relayVars, handlerVars>>

HanPopupChangeBegins == PopupChangeBegins /\ UNCHANGED outsidePopupRuns

HanPopupChangeGetsTab ==
  (\E i \in DOMAIN popupRuns : PopupChangeGetsTab(i)) /\ UNCHANGED outsidePopupRuns

HanPopupChangeLoads ==
  (\E i \in DOMAIN popupRuns : PopupChangeLoads(i)) /\ UNCHANGED outsidePopupRuns

NextHandlers ==
  \/ HanDirectionClick
  \/ HanSaveGetsTab
  \/ HanSaveWrites
  \/ HanSaveSends
  \/ HanRemoveSite
  \/ HanRefresh
  \/ HanPopupChangeBegins
  \/ HanPopupChangeGetsTab
  \/ HanPopupChangeLoads

\* The storage.onChanged listeners of the popup and of the settings manager,
\* await by await, while the popup writes and a site is removed.
SpecHandlers == InitHandlers /\ [][NextHandlers]_vars


\* ------------------------------------------------------------------------
\* The editors, the service worker and the injector around one store
\* ------------------------------------------------------------------------

MaxWriterEdits == 1

MaxWriterRemovals == 1

MaxWriterEvents == 2

InitWriters ==
  /\ store \in OnlyPageRecord({VazirRtl18})
  /\ OpenPopup
  /\ shadowParent = [h \in Hosts |-> NoHost]
  /\ InitInjector
  /\ InitTime
  /\ InitSettings
  /\ InitDispatcher
  /\ NoRelay
  /\ NoHandlerRuns
  /\ NoListView
  /\ managerOpen = TRUE

WriDirectionClick ==
  /\ Len(editLog) < MaxWriterEdits
  /\ \E d \in {"rtl", "ltr"} : DirectionClick(d)
  /\ UNCHANGED <<pageVars, settingsVars, outsideViews>>

WriSaveGetsTab ==
  /\ \E i \in DOMAIN saves : SaveGetsTab(i)
  /\ UNCHANGED <<pageVars, settingsVars, outsideViews>>

WriSaveWrites ==
  /\ \E i \in DOMAIN saves : SaveWrites(i)
  /\ UNCHANGED <<pageVars, settingsVars, outsideViews>>

WriSaveSends ==
  /\ \E i \in DOMAIN saves : SaveSends(i)
  /\ UNCHANGED <<pageVars, settingsVars, outsideViews>>

WriPopupHandlesEvent ==
  /\ PopupHandlesEvent
  /\ UNCHANGED <<pageVars, settingsVars, outsideViews>>

WriRemoveSite ==
  /\ settingsOps < MaxWriterRemovals
  /\ \E host \in Keys : RemoveSite(host)
  /\ UNCHANGED outsideSettings

WriTabsOnUpdated ==
  /\ Len(lookups) + Len(pushLog) < MaxWriterEvents
  /\ \E status \in {"loading", "complete"} : TabsOnUpdated(status, PageUrl)
  /\ UNCHANGED <<pageVars, timeVars, settingsVars, tabUrl, controls,
                 controlsEnabled, saves, popupOpen, popupEvents, editLog,
                 listVars, relayVars, handlerVars>>

WriLookupResolves ==
  /\ \E i \in DOMAIN lookups : LookupResolves(i)
  /\ UNCHANGED <<pageVars, timeVars, settingsVars, tabUrl, controls,
                 controlsEnabled, saves, popupOpen, popupEvents, editLog,
                 listVars, relayVars, handlerVars>>

WriLookupRejects ==
  /\ \E i \in DOMAIN lookups : LookupRejects(i)
  /\ UNCHANGED <<pageVars, timeVars, settingsVars, tabUrl, controls,
                 controlsEnabled, saves, popupOpen, popupEvents, editLog,
                 listVars, relayVars, handlerVars>>

WriInjectorReceives ==
  /\ inbox # <<>>
  /\ OnMessage(Head(inbox))
  /\ inbox' = Tail(inbox)
  /\ UNCHANGED <<store, tabUrl, controls, controlsEnabled, saves, popupOpen,
                 popupEvents, editLog, settingsVars, outsideViews>>

WriLoadGetResolves == LoadGetResolves /\ UNCHANGED outsidePage

WriLoadContinues == LoadContinues /\ UNCHANGED outsidePage

WriLinkLoads == LinkLoads /\ UNCHANGED outsidePage

WriLinkFails == LinkFails /\ UNCHANGED outsidePage

NextWriters ==
  \/ WriDirectionClick
  \/ WriSaveGetsTab
  \/ WriSaveWrites
  \/ WriSaveSends
  \/ WriPopupHandlesEvent
  \/ WriRemoveSite
  \/ WriTabsOnUpdated
  \/ WriLookupResolves
  \/ WriLookupRejects
  \/ WriInjectorReceives
  \/ WriLoadGetResolves
  \/ WriLoadContinues
  \/ WriLinkLoads
  \/ WriLinkFails

\* One hostname's record with the popup and the settings manager editing it,
\* the service worker answering page loads and the page's injector.
SpecWriters == InitWriters /\ [][NextWriters]_vars

\* ------------------------------------------------------------------------
\* The service worker's storage listener under writes of both areas
\* ------------------------------------------------------------------------

MaxChangeOps == 2

MaxChangeCommands == 2

\* Files the user imports: two site records, a text under a hostname, an
\* empty text under a hostname, a theme, a record for a hostname without a
\* dot.
TwoSitesFile ==
  JsonFile([k \in {PageKey, OtherKey} |->
              IF k = PageKey THEN SiteRecord(VazirRtl18, PageKey)
                             ELSE SiteRecord(ArialLtr, OtherKey)])

TextUnderHostFile == JsonFile([k \in {PageKey} |-> Str("notes")])

EmptyUnderHostFile == JsonFile([k \in {PageKey} |-> Empty])

LocalSiteFile == JsonFile([k \in {LocalKey} |-> SiteRecord(RobotoLtr, LocalKey)])

ChangeFiles ==
  {TwoSitesFile, TextUnderHostFile, EmptyUnderHostFile, ThemeFile,
   LocalSiteFile}

InitChange ==
  /\ store \in OnlyPageRecord({VazirRtl18})
  /\ NoPopup
  /\ shadowParent = [h \in Hosts |-> NoHost]
  /\ LoadedInjector
  /\ InitTime
  /\ InitSettings
  /\ InitDispatcher
  /\ NoRelay
  /\ NoHandlerRuns
  /\ NoListView
  /\ managerOpen = TRUE

ChgImport ==
  /\ settingsOps < MaxChangeOps
  /\ \E file \in ChangeFiles :
       /\ HandleImportSettings(file)
       /\ ManagerReloads
  /\ WorkerNotified(store, store')
  /\ UNCHANGED <<pageVars, timeVars, tabUrl, controls, controlsEnabled, saves,
                 popupOpen, inbox, editLog, dispatcherVars, served, siteList,
                 workerInbox, relayLog, managerOpen, popupInbox, handlerVars>>

ChgRemoveSite ==
  /\ settingsOps < MaxChangeOps
  /\ \E host \in Keys : RemoveSite(host)
  /\ WorkerNotified(store, store')
  /\ UNCHANGED <<pageVars, timeVars, tabUrl, controls, controlsEnabled, saves,
                 popupOpen, inbox, editLog, dispatcherVars, listVars,
                 workerInbox, relayLog, managerOpen, managerInbox, popupInbox,
                 handlerVars>>

ChgResetAllClears ==
  /\ settingsOps < MaxChangeOps
  /\ ResetAllClears
  /\ WorkerNotified(store, store')
  /\ UNCHANGED <<pageVars, timeVars, tabUrl, controls, controlsEnabled, saves,
                 popupOpen, inbox, editLog, dispatcherVars, listVars,
                 workerInbox, relayLog, managerOpen, managerInbox, popupInbox,
                 handlerVars>>

ChgResetAllSetsDefaults ==
  /\ ResetAllSetsDefaults
  /\ ManagerReloads
  /\ WorkerNotified(store, store')
  /\ UNCHANGED <<pageVars, timeVars, tabUrl, controls, controlsEnabled, saves,
                 popupOpen, inbox, editLog, dispatcherVars, served, siteList,
                 workerInbox, relayLog, managerOpen, popupInbox, handlerVars>>

\* A command reaches the page's injector; what it writes to the session
\* area fires storage.onChanged.
ChgCommand ==
  /\ pageOps < MaxChangeCommands
  /\ \E request \in Requests({VazirRtl18}) : OnMessage(request)
  /\ SessionNotified(sessionFlag, sessionFlag')
  /\ UNCHANGED <<store, timeVars, popupVars, settingsVars, dispatcherVars,
                 listVars, workerInbox, relayLog, managerOpen, managerInbox,
                 popupInbox, handlerVars>>

ChgLinkLoads ==
  /\ LinkLoads
  /\ SessionNotified(sessionFlag, sessionFlag')
  /\ UNCHANGED <<store, timeVars, popupVars, settingsVars, dispatcherVars,
                 listVars, workerInbox, relayLog, managerOpen, managerInbox,
                 popupInbox, handlerVars>>

ChgLinkFails ==
  /\ LinkFails
  /\ SessionNotified(sessionFlag, sessionFlag')
  /\ UNCHANGED <<store, timeVars, popupVars, settingsVars, dispatcherVars,
                 listVars, workerInbox, relayLog, managerOpen, managerInbox,
                 popupInbox, handlerVars>>

ChgWorkerStorageOnChanged ==
  /\ WorkerStorageOnChanged
  /\ UNCHANGED <<store, pageVars, timeVars, popupVars, settingsVars,
                 dispatcherVars, listVars, handlerVars>>

ChgManagerOnMessage ==
  /\ ManagerOnMessage
  /\ UNCHANGED <<store, pageVars, timeVars, popupVars, settingsVars,
                 dispatcherVars, handlerVars>>

ChgRefresh ==
  /\ RefreshSiteListPage
  /\ UNCHANGED <<store, pageVars, timeVars, popupVars, settingsVars,
                 dispatcherVars, relayVars, handlerVars>>

NextChange ==
  \/ ChgImport
  \/ ChgRemoveSite
  \/ ChgResetAllClears
  \/ ChgResetAllSetsDefaults
  \/ ChgCommand
  \/ ChgLinkLoads
  \/ ChgLinkFails
  \/ ChgWorkerStorageOnChanged
  \/ ChgManagerOnMessage
  \/ ChgRefresh

\* The settings manager writing the sync area and the injector the session
\* area, each write an event of the service worker's storage listener.
SpecChange == InitChange /\ [][NextChange]_vars

\* Clicks on the direction buttons in one run of the popup.
MaxToggleClicks == 3

\* Records the popup may open on: written by the popup, or imported.
ToggleTuples == {VazirRtl18, ArialLtr, ImportedAutoDirection}

InitToggle ==
  /\ store \in OnlyPageRecord(ToggleTuples)
  /\ OpenPopup
  /\ NoInjector
  /\ InitTime
  /\ InitSettings
  /\ InitDispatcher
  /\ NoRelay
  /\ NoHandlerRuns
  /\ NoListView
  /\ managerOpen = FALSE

TogDirectionClick ==
  /\ Len(editLog) < MaxToggleClicks
  /\ \E d \in {"rtl", "ltr"} : DirectionClick(d)
  /\ UNCHANGED outsidePopup

TogSaveGetsTab == (\E i \in DOMAIN saves : SaveGetsTab(i)) /\ UNCHANGED outsidePopup

TogSaveWrites == (\E i \in DOMAIN saves : SaveWrites(i)) /\ UNCHANGED outsidePopup

TogSaveSends == (\E i \in DOMAIN saves : SaveSends(i)) /\ UNCHANGED outsidePopup

TogPopupHandlesEvent == PopupHandlesEvent /\ UNCHANGED outsidePopup

NextToggle ==
  \/ TogDirectionClick
  \/ TogSaveGetsTab
  \/ TogSaveWrites
  \/ TogSaveSends
  \/ TogPopupHandlesEvent

\* Clicks on the RTL and LTR buttons of a popup opened on a stored or
\* imported record, the saves running behind them.
SpecToggle == InitToggle /\ [][NextToggle]_vars

\* Edits made in the number inputs in one run of the popup.
MaxStepperEdits == 2

InitStepper ==
  /\ store \in OnlyPageRecord({VazirRtl18})
  /\ OpenPopup
  /\ NoInjector
  /\ InitTime
  /\ InitSettings
  /\ InitDispatcher
  /\ NoRelay
  /\ NoHandlerRuns
  /\ NoListView
  /\ managerOpen = FALSE

StpNumberInput ==
  /\ Len(editLog) < MaxStepperEdits
  /\ \E field \in NumberFields : \E text \in TypedTexts(field) :
       NumberInput(field, text)
  /\ UNCHANGED outsidePopup

StpStepperClick ==
  /\ Len(editLog) < MaxStepperEdits
  /\ \E field \in NumberFields : \E up \in BOOLEAN : StepperClick(field, up)
  /\ UNCHANGED outsidePopup

StpSaveGetsTab == (\E i \in DOMAIN saves : SaveGetsTab(i)) /\ UNCHANGED outsidePopup

StpSaveWrites == (\E i \in DOMAIN saves : SaveWrites(i)) /\ UNCHANGED outsidePopup

StpSaveSends == (\E i \in DOMAIN saves : SaveSends(i)) /\ UNCHANGED outsidePopup

StpPopupHandlesEvent == PopupHandlesEvent /\ UNCHANGED outsidePopup

NextStepper ==
  \/ StpNumberInput
  \/ StpStepperClick
  \/ StpSaveGetsTab
  \/ StpSaveWrites
  \/ StpSaveSends
  \/ StpPopupHandlesEvent

\* Texts typed into the number inputs and clicks on their stepper buttons,
\* the saves running behind them.
SpecStepper == InitStepper /\ [][NextStepper]_vars
\* ------------------------------------------------------------------------
\* Claims
\* ------------------------------------------------------------------------

\* What the injector has put into the page: per root the injected <style>
\* elements' texts, and the hrefs of the injected font links.
Texts(styles) == [i \in 1..Len(styles) |-> styles[i].text]

Artifacts(d) ==
  [links |-> [i \in 1..Len(d.links) |-> d.links[i].href],
   head |-> Texts(d.headStyles),
   shadow |-> [h \in Hosts |-> Texts(d.shadowStyles[h])]]

\* C2 (Idempotence): when applyPageStyles has run twice in a row with the
\* same tuple, the page holds the same injected <style> elements (at most
\* one per root), the same font links (at most one) and the same content as
\* after the first run.
C2_ApplyTwiceSameArtifacts ==
  (hist.op = "apply" /\ hist.prevOp = "apply" /\ hist.T = hist.prevT)
    => /\ Artifacts(dom) = Artifacts(hist.before)
       /\ Len(dom.links) <= 1
       /\ Len(dom.headStyles) <= 1
       /\ \A h \in Hosts : Len(dom.shadowStyles[h]) <= 1

\* C6 (applyStyles always wins): once an applyStyles command with tuple T
\* has been handled, the last-applied tuple is T until the next applyStyles
\* or resetStyles command.
C6_ApplyStylesWins ==
  lastRequest.action = "applyStyles" => cur = lastRequest.tuple

\* C7 (resetStyles removes all artifacts): when resetPageStyles was the last
\* run, the page holds no injected link, no injected <style> in the head or
\* in an open shadow root, no dir attribute on <html>, <body> or a shadow
\* host, and the last-applied tuple is empty.
C7_ResetRemovesAll ==
  hist.op = "reset"
    => /\ dom.links = <<>>
       /\ dom.headStyles = <<>>
       /\ \A h \in GetAllShadowRoots(shadowParent) :
            dom.shadowStyles[h] = <<>> /\ dom.dirHost[h] = Null
       /\ dom.dirHtml = Null /\ dom.dirBody = Null
       /\ ~AnyTruthy(cur)

\* C8 (Acknowledgement): an applyStyles or resetStyles command is answered
\* with exactly one response, whatever its payload; any other message is
\* answered with none.
C8_EveryCommandAcknowledged ==
  /\ lastRequest.action \in {"applyStyles", "resetStyles"}
       => Len(lastResponse) = 1
  /\ lastRequest.action \notin {"applyStyles", "resetStyles"}
       => Len(lastResponse) = 0

\* Some field of the tuple is neither "", null, undefined nor 0.
TupleNonEmpty(T) ==
  \E f \in DOMAIN T : T[f] \notin {Empty, Null, Undef, Num(0)}

\* C3 as stated (Debounce coalescing): every burst of batches causes exactly
\* one re-apply: once no timer is pending, there have been as many
\* re-applies as bursts.
C3_OneReapplyPerBurst ==
  timers = {} => deb.reapplies = deb.bursts

\* C3 as amended: at most one debounce timer is pending; every burst has
\* exactly one firing of the timer callback, done or pending; a firing comes
\* one window after the last batch of its burst; and the callback re-applies
\* exactly when the last-applied tuple is non-empty.
C3_OneFiringPerBurst ==
  /\ Cardinality(timers) <= 1
  /\ deb.fires + Cardinality(timers) = deb.bursts
  /\ deb.lastFireAt # NoTime
       => /\ deb.lastFireAt = deb.lastFireBatchAt + DebounceDelay
          /\ deb.lastFireApplied <=> TupleNonEmpty(deb.lastFireTuple)
  /\ deb.reapplies <= deb.fires

\* A burst of two or more batches has ended in one firing, which re-applied.
C3_Witness ==
  /\ deb.burstLen >= 2
  /\ deb.lastFireBatchAt = deb.lastBatchAt
  /\ deb.lastFireApplied
  /\ timers = {}


\* Whether two tuples give the same overrides: equal, or both empty.
SameTuple(a, b) == a = b \/ (~AnyTruthy(a) /\ ~AnyTruthy(b))

StoredTuple(r) == IF r = NoRecord THEN EmptyTuple ELSE RecordTuple(r)

\* Nothing is under way: no save, no undelivered event or message, the
\* initial load and any reset-all finished.
Settled ==
  /\ saves = <<>>
  /\ popupEvents = <<>>
  /\ inbox = <<>>
  /\ lookups = <<>>
  /\ loadPc = "done"
  /\ resetPc = "idle"

\* C1: once the writes and removals of the hostname's record have stopped
\* and every pending event and message is delivered, the injector's applied
\* tuple is the tuple of the stored record (empty when there is none) and
\* the popup showing the hostname displays that tuple.
C1_SettledViewsAgree ==
  Settled =>
    /\ SameTuple(cur, StoredTuple(store[PageKey]))
    /\ SameTuple(controls, LoadedControls(store[PageKey]))

WithinRangeOrEmpty(field, v) ==
  \/ v = Empty
  \/ /\ v.t = "numstr"
     /\ v.n >= NumberInputConfig(field).min
     /\ v.n <= NumberInputConfig(field).max

\* C4: in every reachable state each numeric field of a site record the
\* popup has written is empty or inside the field's [min, max].
C4_StoredWithinRange ==
  \A k \in PageHostKeys :
    store[k] # NoRecord =>
      \A field \in NumberFields : WithinRangeOrEmpty(field, store[k][field])

\* C5: export, reset-all, then import of the exported document gives back
\* every site record of the store that was exported, with the same fields.
C5_RoundTripKeepsSiteRecords ==
  roundTrip.phase = "imported" =>
    \A k \in PageHostKeys : store[k] = roundTrip.from[k]

\* What the listener should send for an event, given the store it read.
ExpectedPush(entry) ==
  IF /\ entry.status = "complete"
     /\ IsHttpOrFile(entry.url)
     /\ entry.storeRead[entry.url.host] # NoRecord
    THEN [action |-> "applyStyles",
          tuple |-> RecordTuple(entry.storeRead[entry.url.host])]
    ELSE NoRequest

\* C9 as stated: on a tab update the dispatcher sends applyStyles iff the
\* update is load-complete, the URL is http(s) or file and the store holds
\* a record for the hostname; the payload is the record's seven fields.
C9_PushIffCompleteAndRecord ==
  \A i \in DOMAIN pushLog : pushLog[i].sent = ExpectedPush(pushLog[i])

\* C9: ... iff the update is load-complete, the URL is http(s) or file, the
\* read of the store succeeds and the store holds a record for the
\* hostname; the payload is the record's seven fields; otherwise nothing
\* is sent.
C9_PushIffCompleteReadAndRecord ==
  \A i \in DOMAIN pushLog :
    pushLog[i].sent = IF pushLog[i].readFailed THEN NoRequest
                                               ELSE ExpectedPush(pushLog[i])

C9_Witness ==
  /\ \E i \in DOMAIN pushLog : pushLog[i].sent.action = "applyStyles"
  /\ \E i \in DOMAIN pushLog :
       /\ pushLog[i].status = "complete"
       /\ IsHttpOrFile(pushLog[i].url)
       /\ pushLog[i].sent = NoRequest

LoadSettled ==
  /\ loadPc = "done"
  /\ lookups = <<>>
  /\ inbox = <<>>
  /\ listEvents = 0
  /\ \E i \in DOMAIN pushLog : pushLog[i].status = "complete"

IsEmptyRecord(r) == r # NoRecord /\ ~AnyTruthy(RecordTuple(r))

\* What a load leaves when the hostname has no record: the page as it was
\* served, no applied tuple, the hostname not listed.
AsWithoutRecord ==
  /\ dom = served
  /\ ~AnyTruthy(cur)
  /\ \A i \in DOMAIN siteList : siteList[i] # PageKey

\* C11: an all-fields-empty record stored for a hostname leaves, once the
\* page has loaded, the same state as no record: the page's DOM as served
\* (its own dir attribute included), an empty applied tuple, and a site list
\* without the hostname.
C11_EmptyRecordAsAbsent ==
  (LoadSettled /\ (store[PageKey] = NoRecord \/ IsEmptyRecord(store[PageKey])))
    => AsWithoutRecord

\* With no record the load leaves the page as served.
AbsentLeavesPage ==
  (LoadSettled /\ store[PageKey] = NoRecord) => AsWithoutRecord

\* Host h is in the page: in the light tree, or in the shadow tree of a host
\* that is in the page.
RECURSIVE Attached(_, _, _)
Attached(parent, h, depth) ==
  \/ parent[h] = InDocument
  \/ /\ depth > 0
     /\ parent[h] \in Hosts
     /\ Attached(parent, parent[h], depth - 1)

\* The <style> elements of a root hold the rule `direction: d`.
HasDirectionRule(styles, d) ==
  \E i \in DOMAIN styles : \E j \in DOMAIN styles[i].text :
    styles[i].text[j] = Rule(":host, *", <<Decl("direction", d)>>)

\* C12: after applyPageStyles has run with direction "rtl", every open
\* shadow root reachable from the document element, at any nesting depth,
\* has dir="rtl" on its host and holds an injected <style> with the
\* direction rule.
C12_ShadowRootsCovered ==
  (hist.op = "apply" /\ hist.T.direction = Str("rtl"))
    => \A h \in Hosts :
         Attached(shadowParent, h, Cardinality(Hosts))
           => /\ dom.dirHost[h] = Str("rtl")
              /\ HasDirectionRule(dom.shadowStyles[h], Str("rtl"))

\* An apply with direction "rtl" has run on the page whose second shadow
\* root is nested in the first, and both hosts and roots are covered.
C12_Witness ==
  /\ hist.op = "apply"
  /\ hist.T.direction = Str("rtl")
  /\ shadowParent[1] = InDocument
  /\ shadowParent[2] = 1
  /\ \A h \in Hosts :
       /\ dom.dirHost[h] = Str("rtl")
       /\ HasDirectionRule(dom.shadowStyles[h], Str("rtl"))

\* The three edits of the example are made, saved and delivered.
ExampleDone ==
  /\ ExampleQuiet
  /\ controls.font = Str("Vazirmatn")
  /\ controls.direction = Str("rtl")
  /\ controls.fontSize = NumStr(18 * Scale)

\* The <style> elements of a root hold a rule declaring prop: v.
HasDeclaration(styles, prop, v) ==
  \E i \in DOMAIN styles : \E j \in DOMAIN styles[i].text :
    \E n \in DOMAIN styles[i].text[j].decls :
      styles[i].text[j].decls[n] = Decl(prop, v)

C14_ParseErrorLeavesStore ==
  [][HandleImportSettings(NoFile)
       => /\ store' = store
          /\ reloads' = reloads
          /\ statusMessage' = "importErrorMessage"]_vars

\* An import of an unparseable document has ended on a store that holds
\* records, and the page has not reloaded.
C14_Witness ==
  /\ statusMessage = "importErrorMessage"
  /\ reloads = 0
  /\ ListedSites(store) # {}

\* The store reset-all is meant to leave: the three global keys with their
\* defaults and nothing else.
DefaultStore ==
  [k \in Keys |->
     CASE k = <<"theme">> -> Str("system")
       [] k = <<"uiFont">> -> DEFAULT_UI_FONT
       [] k = <<"extensionLanguage">> -> Str("en")
       [] OTHER -> NoRecord]

\* C15: when a confirmed reset-all completes, the store holds exactly the
\* three global keys with their defaults and no site record, whatever it
\* held before and whatever writes of the popup were in flight meanwhile.
C15_ResetAllLeavesDefaults ==
  [][ResetAllSetsDefaults => store' = DefaultStore]_vars

\* The hostnames under which a record can be stored.
SiteKeys == PageHostKeys \cup {OtherKey}

\* The list holds hostname k.
Lists(list, k) == \E i \in DOMAIN list : list[i] = k

\* The list is in the order of localeCompare.
SortedByHostName(list) ==
  \A i, j \in DOMAIN list : i < j => LocaleCompare(list[i], list[j])

\* C16: a refresh of the settings manager's list leaves a list that holds
\* every hostname with a record in the store, whatever hostname the popup
\* wrote it under, none of the global keys nor the backup key, and is sorted
\* by hostname.
C16_ListHoldsEverySite ==
  [][RefreshSiteListPage
       => /\ \A k \in SiteKeys : store[k] # NoRecord => Lists(siteList', k)
          /\ \A k \in GlobalKeys \cup {ALL_SETTINGS_KEY} : ~Lists(siteList', k)
          /\ SortedByHostName(siteList')]_vars

\* A refresh lists the records stored under hostnames with a dot, in order,
\* and no other key.
ListHoldsDottedSites ==
  [][RefreshSiteListPage
       => /\ \A k \in Keys :
               Lists(siteList', k)
                 <=> (k \in SiteKeys /\ IncludesDot(k) /\ store[k] # NoRecord)
          /\ SortedByHostName(siteList')]_vars

\* C17: the exported document's top-level keys are exactly the keys of the
\* site records of the store, whatever hostname the popup wrote them under,
\* plus those of the three global keys that are present, each with its
\* stored value.
C17_ExportHoldsEverySite ==
  exportFile.ok
    => /\ DOMAIN exportFile.data =
            {k \in SiteKeys \cup GlobalKeys : roundTrip.from[k] # NoRecord}
       /\ \A k \in DOMAIN exportFile.data :
            exportFile.data[k] = roundTrip.from[k]

\* The exported document holds the keys with a dot and the global keys that
\* are present, each with its stored value.
ExportHoldsDottedSites ==
  exportFile.ok
    => /\ DOMAIN exportFile.data =
            {k \in Keys : /\ roundTrip.from[k] # NoRecord
                          /\ IncludesDot(k) \/ k \in GlobalKeys}
       /\ \A k \in DOMAIN exportFile.data :
            exportFile.data[k] = roundTrip.from[k]

\* The broadcast the relay is to make for a message, <<>> for none.
ExpectedRelay(message) ==
  CASE message.type = "USER_CHANGED_THEME_PREFERENCE" ->
         <<Themed("THEME_CHANGED", message.theme)>>
    [] message.type = "SITE_DATA_DID_CHANGE" ->
         <<Plain("SITE_DATA_DID_CHANGE_FORWARDED")>>
    [] message.type = "SETTINGS_IMPORTED_SUCCESSFULLY" ->
         <<Plain("RELOAD_POPUP_SETTINGS")>>
    [] OTHER -> <<>>

\* Every message the service worker has handled caused the expected
\* broadcast and no other.
RelayLogAsExpected ==
  \A i \in DOMAIN relayLog :
    relayLog[i].received.type # "storage.onChanged"
      => relayLog[i].sent = ExpectedRelay(relayLog[i].received)

\* The step in which the service worker handles a message delivers the
\* expected broadcast, once, to the open settings manager; the step in which
\* the settings manager receives SITE_DATA_DID_CHANGE_FORWARDED starts a
\* refresh; a refresh sets the list from the store.
RelayStep ==
  /\ (workerInbox # <<>> /\ workerInbox' = Tail(workerInbox) /\ managerOpen)
       => managerInbox' = managerInbox \o ExpectedRelay(Head(workerInbox))
  /\ (/\ managerInbox # <<>>
      /\ managerInbox' = Tail(managerInbox)
      /\ reloads' = reloads
      /\ Head(managerInbox).type = "SITE_DATA_DID_CHANGE_FORWARDED")
       => listEvents' = listEvents + 1
  /\ (listEvents' < listEvents /\ reloads' = reloads)
       => siteList' = SiteEntries(store)

\* C18: each USER_CHANGED_THEME_PREFERENCE message the service worker
\* receives causes exactly one THEME_CHANGED broadcast with the same theme,
\* each SITE_DATA_DID_CHANGE message exactly one
\* SITE_DATA_DID_CHANGE_FORWARDED broadcast, on receipt of which an open
\* settings manager refreshes its list from the store, and a message of an
\* unknown type causes no broadcast.
C18_RelayOncePerMessage == []RelayLogAsExpected /\ [][RelayStep]_vars

\* The service worker has relayed a theme change, a site-data change and an
\* unknown message, and the open settings manager has refreshed its list.
C18_Witness ==
  /\ managerOpen
  /\ \E i \in DOMAIN relayLog :
       /\ relayLog[i].received.type = "USER_CHANGED_THEME_PREFERENCE"
       /\ relayLog[i].sent = <<Themed("THEME_CHANGED", Str("dark"))>>
  /\ \E i \in DOMAIN relayLog :
       /\ relayLog[i].received.type = "SITE_DATA_DID_CHANGE"
       /\ Len(relayLog[i].sent) = 1
  /\ \E i \in DOMAIN relayLog :
       /\ relayLog[i].received.type = "PING"
       /\ relayLog[i].sent = <<>>
  /\ managerInbox = <<>>
  /\ listEvents = 0
  /\ siteList # <<>>
  /\ siteList = SiteEntries(store)

\* The step of a successful import hands SETTINGS_IMPORTED_SUCCESSFULLY to
\* the service worker, and the step in which the open popup receives
\* RELOAD_POPUP_SETTINGS loads its controls from the store.
ImportStep ==
  /\ reloads' = reloads + 1
       => workerInbox' =
            Append(workerInbox, Plain("SETTINGS_IMPORTED_SUCCESSFULLY"))
  /\ (/\ popupInbox # <<>>
      /\ popupInbox' = Tail(popupInbox)
      /\ Head(popupInbox).type = "RELOAD_POPUP_SETTINGS")
       => LoadSavedSettings

\* C19: after a successful bulk import the service worker receives a
\* SETTINGS_IMPORTED_SUCCESSFULLY notification, it sends one
\* RELOAD_POPUP_SETTINGS message and answers the sender with a status, and
\* an open popup that receives RELOAD_POPUP_SETTINGS reloads its displayed
\* settings from the store.
C19_ImportNotifiesPopup ==
  /\ [][ImportStep]_vars
  /\ [](\A i \in DOMAIN relayLog :
          relayLog[i].received.type = "SETTINGS_IMPORTED_SUCCESSFULLY"
            => /\ relayLog[i].sent = <<Plain("RELOAD_POPUP_SETTINGS")>>
               /\ Len(relayLog[i].response) = 1)

\* The service worker's part of the import notification: a
\* SETTINGS_IMPORTED_SUCCESSFULLY message it handles causes one
\* RELOAD_POPUP_SETTINGS message and one answer.
WorkerAnswersImport ==
  \A i \in DOMAIN relayLog :
    relayLog[i].received.type = "SETTINGS_IMPORTED_SUCCESSFULLY"
      => /\ relayLog[i].sent = <<Plain("RELOAD_POPUP_SETTINGS")>>
         /\ relayLog[i].response =
              <<"Import notification processed by service worker.">>

\* The popup's part: the step in which it receives RELOAD_POPUP_SETTINGS
\* loads its controls from the store.
PopupReloadsOnMessage ==
  [][(/\ popupInbox # <<>>
      /\ popupInbox' = Tail(popupInbox)
      /\ Head(popupInbox).type = "RELOAD_POPUP_SETTINGS")
       => LoadSavedSettings]_vars

\* The settings manager's part: the step of a successful import hands
\* SETTINGS_IMPORTED_SUCCESSFULLY to the service worker.
ImportSendsNotification ==
  [][reloads' = reloads + 1
       => workerInbox' =
            Append(workerInbox, Plain("SETTINGS_IMPORTED_SUCCESSFULLY"))]_vars

\* A font that is not empty and not one of the system fonts.
WebFont(font) ==
  /\ Truthy(font)
  /\ ~(font.t = "str" /\ font.s \in {"Tahoma", "Arial", "Times New Roman", "Georgia"})

\* The page holds exactly one injected font link, and it requests font.
OneLinkFor(font) ==
  /\ Len(dom.links) = 1
  /\ dom.links[1].id = FONT_LINK_TAG_ID
  /\ dom.links[1].href.family = Str(PlusForSpace(font.s))

\* C20: the page never holds more than one injected font link; after an
\* apply with a non-empty font outside the system-font allowlist it holds
\* exactly one, requesting that font; after an apply with an empty or
\* allowlisted font, or a reset, it holds none.
C20_SingleFontLink ==
  /\ Len(dom.links) <= 1
  /\ (hist.op = "apply" /\ WebFont(hist.T.font)) => OneLinkFor(hist.T.font)
  /\ (hist.op = "apply" /\ ~WebFont(hist.T.font)) => dom.links = <<>>
  /\ hist.op = "reset" => dom.links = <<>>

\* The same with the second part kept to tuples whose weight is empty or a
\* string.
SingleFontLinkForStringWeights ==
  /\ Len(dom.links) <= 1
  /\ (/\ hist.op = "apply"
      /\ WebFont(hist.T.font)
      /\ (~Truthy(hist.T.fontWeight) \/ IsString(hist.T.fontWeight)))
       => OneLinkFor(hist.T.font)
  /\ (hist.op = "apply" /\ ~WebFont(hist.T.font)) => dom.links = <<>>
  /\ hist.op = "reset" => dom.links = <<>>

\* The injected font link goes from loading to the given state.
LinkBecomes(state) ==
  /\ Len(dom.links) = 1
  /\ dom.links[1].state = "loading"
  /\ dom' = [dom EXCEPT !.links[1].state = state]

\* An apply with an empty or system font, or a reset, runs.
FontRemoved ==
  /\ hist' # hist
  /\ \/ hist'.op = "reset"
     \/ hist'.op = "apply" /\ ~WebFont(hist'.T.font)

\* One step of the SessionFlag: a failed load sets it, a successful load and
\* an apply without a web font clear it, and nothing but a failed load sets
\* it.
SessionFlagStep ==
  /\ LinkBecomes("failed") => sessionFlag'
  /\ LinkBecomes("loaded") => ~sessionFlag'
  /\ FontRemoved => ~sessionFlag'
  /\ (~sessionFlag /\ sessionFlag') => LinkBecomes("failed")

\* C21: the host's cspBlocked flag is set when a font load for the host
\* fails, and cleared when a later font load succeeds or when an apply with
\* an empty or system font (or a reset) runs; once cleared it stays absent
\* until a load fails again.
C21_SessionFlagLifecycle == [][SessionFlagStep]_vars

\* A load has failed and set the flag, and a later apply with a system font
\* has cleared it.
C21_Witness ==
  /\ ~sessionFlag
  /\ hist.op = "apply"
  /\ hist.T = ArialLtr
  /\ hist.prevOp = "apply"
  /\ WebFont(hist.prevT.font)
  /\ Len(hist.before.links) = 1
  /\ hist.before.links[1].state = "failed"

\* After the apply that ran last, the injected <style> elements `styles` of
\* a root, which held `before` when the apply began, are as the ruleset
\* `rules` requires: one element iff the ruleset is not empty, and nothing
\* written or inserted when the root already held the ruleset's text.
StyleMaintained(before, styles, rules) ==
  /\ styles # <<>> <=> rules # <<>>
  /\ Len(styles) <= 1
  /\ (\E i \in DOMAIN before : before[i].text = rules) => styles = before

\* C22: after an apply, every root (the document head and each shadow
\* root) holds an injected <style> element if and only if the synthesized
\* ruleset is not empty; an apply whose ruleset equals the text already
\* injected in the root writes and inserts nothing, and an apply with an
\* empty ruleset removes the root's injected <style> element.
C22_StyleElementMaintained ==
  hist.op = "apply" =>
    /\ StyleMaintained(hist.before.headStyles, dom.headStyles,
                       CssRules(TRUE, hist.T))
    /\ \A h \in GetAllShadowRoots(shadowParent) :
         StyleMaintained(hist.before.shadowStyles[h], dom.shadowStyles[h],
                         CssRules(FALSE, hist.T))

\* The same for the document head alone, after an apply that ran to its
\* end.
HeadStyleMaintained ==
  (hist.op = "apply" /\ lastResponse # <<>>) =>
    StyleMaintained(hist.before.headStyles, dom.headStyles,
                    CssRules(TRUE, hist.T))

\* The same for the shadow roots alone, after an apply that ran to its end.
ShadowStyleMaintained ==
  (hist.op = "apply" /\ lastResponse # <<>>) =>
    \A h \in GetAllShadowRoots(shadowParent) :
      StyleMaintained(hist.before.shadowStyles[h], dom.shadowStyles[h],
                      CssRules(FALSE, hist.T))

\* The ruleset holds the forced direction rule for direction d.
ForcesDirection(rules, d) ==
  \E j \in DOMAIN rules : rules[j] = Rule(":host, *", <<Decl("direction", d)>>)

\* The dir attributes of <html>, <body> and the hosts of the shadow roots.
DirAttributes ==
  {dom.dirHtml, dom.dirBody}
    \cup {dom.dirHost[h] : h \in GetAllShadowRoots(shadowParent)}

\* The dir attributes mirror the ruleset synthesized for tuple T: present
\* iff the ruleset forces a direction, and then equal to it.
DirMirrorsRules(T) ==
  LET rules == CssRules(TRUE, T)
      forced == \E d \in {Str("rtl"), Str("ltr")} : ForcesDirection(rules, d)
  IN  \A attr \in DirAttributes :
        /\ attr # Null <=> forced
        /\ attr # Null => ForcesDirection(rules, attr)

\* C23: after every apply, whatever direction value the tuple carries,
\* <html>, <body> and every shadow host carry a dir attribute if and only
\* if the injected ruleset contains the forced direction rule (direction
\* rtl or ltr), and the attribute's value is that direction.
C23_DirMirrorsRule == hist.op = "apply" => DirMirrorsRules(hist.T)

\* The same for applies that ran to their end with a direction the popup
\* can write: "", "rtl" or "ltr".
DirMirrorsPopupDirections ==
  (/\ hist.op = "apply"
   /\ lastResponse # <<>>
   /\ hist.T.direction \in {Empty, Str("rtl"), Str("ltr")})
    => DirMirrorsRules(hist.T)

\* The same for applies that ran to their end, with any direction.
DirMirrorsWhenCompleted ==
  (hist.op = "apply" /\ lastResponse # <<>>) => DirMirrorsRules(hist.T)

\* The debounce timer's callback runs in this step.
TimerCallbackRuns == deb'.fires = deb.fires + 1

\* Every field of the tuple is "", null, undefined or 0.
TupleEmpty(T) == \A f \in DOMAIN T : T[f] \in {Empty, Null, Undef, Num(0)}

\* C24: while the injector's last-applied tuple is empty (none applied yet,
\* after resetStyles, or after an apply of the all-empty tuple), the firing
\* of the debounce timer after a mutation performs no apply and changes
\* neither the page nor the SessionFlag.
C24_MutationNoOpWhenEmpty ==
  [][(TimerCallbackRuns /\ TupleEmpty(cur))
       => /\ dom' = dom
          /\ sessionFlag' = sessionFlag
          /\ hist' = hist
          /\ cur' = cur
          /\ deb'.reapplies = deb.reapplies]_vars

\* The timer has fired after an apply of the all-empty tuple, with the
\* SessionFlag set, and nothing was applied.
C24_Witness ==
  /\ deb.fires > 0
  /\ ~deb.lastFireApplied
  /\ deb.lastFireTuple = EmptyTuple
  /\ hist.op = "apply"
  /\ hist.T = EmptyTuple
  /\ timers = {}

\* The injector's initial read of the store ends in this step.
InitialLoadEnds == loadPc = "gotData" /\ loadPc' = "done"

\* C25: when the injector starts on a page whose hostname has no record, or
\* a record whose seven fields are all empty, it stays idle: its applied
\* tuple is empty and it changes nothing in the page (no style, no link, no
\* dir attribute); when the record has a non-empty field it applies exactly
\* that record's tuple and records it as applied.
C25_InitialLoad ==
  [][InitialLoadEnds =>
       IF loadData = NoRecord \/ TupleEmpty(RecordTuple(loadData))
         THEN /\ TupleEmpty(cur')
              /\ dom' = dom
              /\ sessionFlag' = sessionFlag
              /\ hist' = hist
         ELSE /\ cur' = RecordTuple(loadData)
              /\ hist'.op = "apply"
              /\ hist'.T = RecordTuple(loadData)
              /\ \E rnd \in [Hosts -> Suffixes] :
                   dom' = ApplyPageStyles(dom, shadowParent,
                                          RecordTuple(loadData), rnd).dom]_vars

\* The initial load has ended on a page whose hostname has the all-empty
\* record, before any command: nothing is applied and the page is as served.
C25_Witness ==
  /\ loadPc = "done"
  /\ pageOps = 0
  /\ store[PageKey] = EmptyRecord
  /\ loadData = EmptyRecord
  /\ cur = NullTuple
  /\ dom = NoArtifacts
  /\ hist = NoHist

\* The initial load has ended on a page whose hostname has a record with
\* non-empty fields, before any command: the record's tuple is applied.
InitialLoadApplied ==
  /\ loadPc = "done"
  /\ pageOps = 0
  /\ cur = VazirRtl18
  /\ hist.op = "apply"
  /\ dom.dirHtml = Str("rtl")
  /\ Len(dom.links) = 1
  /\ Len(dom.headStyles) = 1

\* The store set call of some edit fails in this step.
SetFails ==
  \E e \in DOMAIN editLog : editLog'[e].failedSets > editLog[e].failedSets

\* An edit whose set call failed is over: the set was tried once and never
\* took effect, and no applyStyles command was sent for it.
FailedEditsAbandoned ==
  \A e \in DOMAIN editLog :
    editLog[e].failedSets > 0
      => /\ editLog[e].failedSets = 1
         /\ editLog[e].sets = 0
         /\ editLog[e].pushes = 0
         /\ editLog[e].done
         /\ \A i \in DOMAIN saves : saves[i].edit # e

\* C26: when the store set call of a popup edit fails the edit is
\* abandoned: no applyStyles command is sent for it, the write is not
\* retried, the store is unchanged and the page keeps the state it had.
C26_SetFailureAbandonsEdit ==
  /\ []FailedEditsAbandoned
  /\ [][SetFails => /\ store' = store
                    /\ inbox' = inbox
                    /\ dom' = dom
                    /\ cur' = cur]_vars

\* A first edit was saved and applied to the page; the set call of a second
\* edit failed, and the store and the page are as the first edit left them.
C26_Witness ==
  /\ Len(editLog) = 2
  /\ editLog[1].sets = 1
  /\ editLog[1].pushes = 1
  /\ editLog[2].failedSets = 1
  /\ saves = <<>>
  /\ inbox = <<>>
  /\ store[PageKey] = editLog[1].setValue
  /\ cur = RecordTuple(editLog[1].setValue)
  /\ hist.op = "apply"
  /\ editLog[2].read # editLog[1].read

\* In the popup at most one run of the change listener is under way.
PopupRunsOneAtATime == Len(popupRuns) <= 1

\* In the settings manager at most one run of the change listener is under
\* way.
ManagerRunsOneAtATime == listEvents <= 1

\* C27: within one context (popup or settings manager) the handling of one
\* store-change event ends, its reload of the displayed settings included,
\* before the handling of the next begins: two runs never interleave.
C27_HandlersRunToCompletion == PopupRunsOneAtATime /\ ManagerRunsOneAtATime

\* Whatever the interleaving, once every run is over the popup shows the
\* record of the store.
SettledPopupShowsStore ==
  (popupRuns = <<>> /\ popupEvents = <<>> /\ saves = <<>>)
    => controls = LoadedControls(store[PageKey])

\* C28: a popup edit for hostname A writes only key A: in the step in which
\* the edit's set call takes effect every other key of the store (the
\* records of other hostnames and the global keys) keeps its value, in every
\* interleaving with edits for other hostnames.
C28_EditWritesOnlyItsKey ==
  [][\A e \in DOMAIN editLog :
       editLog'[e].sets > editLog[e].sets
         => /\ \A k \in Keys \ {editLog[e].activeUrl.host} :
                 store'[k] = store[k]
            /\ store'[editLog[e].activeUrl.host].host
                 = editLog[e].activeUrl.host]_vars

\* Two edits, for example.com and for localhost, have both been written,
\* and the store holds the record of each under its own key.
C28_Witness ==
  /\ Len(editLog) = 2
  /\ editLog[1].sets = 1
  /\ editLog[2].sets = 1
  /\ editLog[1].setKey # editLog[2].setKey
  /\ store[editLog[1].setKey] = editLog[1].setValue
  /\ store[editLog[2].setKey] = editLog[2].setValue
  /\ saves = <<>>


\* ------------------------------------------------------------------------
\* C29
\* ------------------------------------------------------------------------

\* A step of an editor: a popup edit's set takes effect, or the settings
\* manager runs an operation.
EditorWrites ==
  \/ \E e \in DOMAIN editLog : editLog'[e].sets > editLog[e].sets
  \/ settingsOps' # settingsOps

\* A step of the service worker's tabs.onUpdated listener.
DispatcherActs == dispatcherVars' # dispatcherVars

\* A step of the page's injector.
InjectorActs == pageVars' # pageVars

\* What a run of the listener sends is fixed by its event and the store as
\* the run read it.
SentFromStoreRead(run) ==
  LET settings == run.storeRead[run.url.host]
  IN  run.sent = IF /\ PushGuard(run.status, run.url)
                    /\ ~run.readFailed
                    /\ settings # NoRecord
                   THEN FallbackRequest(settings)
                   ELSE NoRequest

\* C29: only the editors write the Settings Store. Every step that changes
\* the sync store is a set of a popup edit or an operation of the settings
\* manager; no step of the service worker's listener or of the injector
\* changes it, the injector's storage writes being those of the session
\* flag; and the listener keeps no settings between events: a run in flight
\* holds the event only, and what a run sent follows from the store as that
\* run read it.
C29_OnlyEditorsWrite ==
  /\ [][/\ store' # store => EditorWrites
        /\ DispatcherActs \/ InjectorActs => store' = store]_vars
  /\ [](/\ \A i \in DOMAIN lookups : DOMAIN lookups[i] = {"status", "url"}
        /\ \A i \in DOMAIN pushLog : SentFromStoreRead(pushLog[i]))

\* The listener answered two page loads with different records, the popup's
\* set between them, and the injector has written the session flag.
C29_Witness ==
  /\ Len(pushLog) = 2
  /\ pushLog[1].sent # NoRequest
  /\ pushLog[2].sent # NoRequest
  /\ pushLog[1].sent # pushLog[2].sent
  /\ store[PageKey] # NoRecord
  /\ pushLog[2].sent = FallbackRequest(store[PageKey])
  /\ \E e \in DOMAIN editLog : editLog[e].sets = 1
  /\ sessionFlag

\* ------------------------------------------------------------------------
\* C30
\* ------------------------------------------------------------------------

\* The injector's last-applied tuple: currentAppliedFont .. WordSpacing.
LastApplied == cur

\* The timer's callback re-applies T: one more run of apply, with T, on the
\* page as the callback found it.
Reapplies(T) ==
  /\ hist' = [op |-> "apply", T |-> T, prevOp |-> hist.op, prevT |-> hist.T,
              before |-> dom]
  /\ cur' = T
  /\ deb'.lastFireApplied
  /\ deb'.lastFireTuple = T

\* The timer's callback applies nothing.
ReappliesNothing ==
  /\ hist' = hist
  /\ dom' = dom
  /\ cur' = cur
  /\ ~deb'.lastFireApplied

\* A command was handled after the last mutations were delivered to
\* handleMutations.
CommandSinceMutation == pageOps > deb.lastBatchOps

\* C30: re-apply uses the tuple current at fire time. When the debounce
\* timer's callback runs it re-applies the injector's last-applied tuple as
\* it is at that moment, and nothing when that tuple is empty: when the last
\* command handled since the mutation is applyStyles with T2 it re-applies
\* T2 (nothing when T2 is all empty), and when it is resetStyles it
\* re-applies nothing.
C30_ReapplyUsesCurrentTuple ==
  [][TimerCallbackRuns
       => /\ IF TupleEmpty(LastApplied) THEN ReappliesNothing
                                        ELSE Reapplies(LastApplied)
          /\ (CommandSinceMutation /\ lastRequest.action = "applyStyles")
               => IF TupleEmpty(lastRequest.tuple)
                    THEN ReappliesNothing
                    ELSE Reapplies(lastRequest.tuple)
          /\ (CommandSinceMutation /\ lastRequest.action = "resetStyles")
               => ReappliesNothing]_vars

\* The page's record is Vazirmatn; a command with Arial was handled after
\* the mutations that set the timer were delivered, and the callback
\* re-applied Arial.
C30_Witness ==
  /\ store[PageKey] # NoRecord
  /\ RecordTuple(store[PageKey]) = VazirRtl18
  /\ deb.lastFireApplied
  /\ deb.lastFireCommands >= 1
  /\ deb.lastFireTuple = ArialLtr
  /\ hist.op = "apply"
  /\ hist.T = ArialLtr
  /\ hist.prevT = ArialLtr
  /\ cur = ArialLtr

\* A resetStyles command was handled after the mutations that set the timer
\* were delivered, and the callback applied nothing.
ReapplyNothingAfterReset ==
  /\ deb.fires >= 1
  /\ deb.lastFireCommands >= 1
  /\ ~deb.lastFireApplied
  /\ hist.op = "reset"
  /\ hist.prevOp = "apply"
  /\ lastRequest.action = "resetStyles"

\* ------------------------------------------------------------------------
\* C31
\* ------------------------------------------------------------------------

\* The complete records written for the page's hostname so far: the one the
\* store started with, the one of each popup edit whose set has taken
\* effect, and the one of the file once it has been imported.
WholeRecordsWritten ==
  {SiteRecord(VazirRtl18, PageKey)}
    \cup {editLog[e].setValue : e \in {d \in DOMAIN editLog : editLog[d].sets >= 1}}
    \cup (IF reloads >= 1 THEN {HandWrittenFile.data[PageKey]} ELSE {})

\* The popup's set of edit e takes effect.
PopupSetTakesEffect(e) == editLog'[e].sets > editLog[e].sets

\* The settings manager's import of the file takes effect.
FileImportTakesEffect == reloads' = reloads + 1

\* C31: last-write-wins keeps whole tuples. With the popup and the settings
\* manager writing the record of the same hostname concurrently, the stored
\* record is in every state absent or the complete record of one of the
\* writes, and each write leaves its own complete record in the store, so
\* the later write's record stands once both have completed; the record is
\* never a field-wise mixture.
C31_LastWriteWinsWholeTuples ==
  /\ [](store[PageKey] = NoRecord \/ store[PageKey] \in WholeRecordsWritten)
  /\ [][/\ \A e \in DOMAIN editLog :
             PopupSetTakesEffect(e) =>
               \E i \in DOMAIN saves :
                 /\ saves[i].edit = e
                 /\ store'[saves[i].url.host] =
                      SiteRecord(saves[i].T, saves[i].url.host)
        /\ FileImportTakesEffect =>
             store'[PageKey] = HandWrittenFile.data[PageKey]]_vars

\* The popup's edit was made on controls showing the first record, the file
\* was imported before the edit's set took effect, and both have completed:
\* the store holds the edit's complete record, which differs from the
\* file's in several fields.
C31_Witness ==
  /\ reloads = 1
  /\ Len(editLog) = 1
  /\ editLog[1].sets = 1
  /\ saves = <<>>
  /\ editLog[1].read.fontSize = VazirRtl18.fontSize
  /\ store[PageKey] = editLog[1].setValue
  /\ store[PageKey] # HandWrittenFile.data[PageKey]
  /\ store[PageKey].fontWeight # HandWrittenFile.data[PageKey].fontWeight
  /\ store[PageKey].fontSize # HandWrittenFile.data[PageKey].fontSize

\* Both writes have completed and the file's record stands.
FileRecordStands ==
  /\ reloads = 1
  /\ Len(editLog) = 1
  /\ editLog[1].sets = 1
  /\ saves = <<>>
  /\ editLog[1].read.fontSize = VazirRtl18.fontSize
  /\ store[PageKey] = HandWrittenFile.data[PageKey]

\* ------------------------------------------------------------------------
\* C32
\* ------------------------------------------------------------------------

\* The service worker's storage listener handles the oldest event.
WorkerHandlesChange ==
  /\ workerEvents # <<>>
  /\ workerEvents' = Tail(workerEvents)
  /\ Len(relayLog') = Len(relayLog) + 1

\* The SITE_DATA_DID_CHANGE messages the run that has just ended sent.
SiteDataMessagesSent ==
  LET sent == relayLog'[Len(relayLog')].sent
  IN  Cardinality({i \in DOMAIN sent : sent[i].type = "SITE_DATA_DID_CHANGE"})

\* The keys of an event that contain "." and are not the backup key.
DottedKeysChanged(e) ==
  {k \in ChangedKeys(e.old, e.new) : IncludesDot(k) /\ k # ALL_SETTINGS_KEY}

\* A key of the event was added, replaced by an object, or removed.
AddedReplacedByObjectOrRemoved(e) ==
  \E k \in DottedKeysChanged(e) :
    \/ e.old[k] = NoRecord
    \/ IsObject(e.new[k])
    \/ e.new[k] = NoRecord

\* A key of the event has an object for its new value, or was removed
\* having held a truthy value.
ObjectStoredOrTruthyRemoved(e) ==
  \E k \in DottedKeysChanged(e) :
    \/ IsObject(e.new[k])
    \/ e.new[k] = NoRecord /\ StoredTruthy(e.old[k])

\* One notification per change event, sent exactly when test(e) holds of an
\* event e of the sync area.
OneNotificationWhen(sends) ==
  WorkerHandlesChange
    => /\ SiteDataMessagesSent <= 1
       /\ SiteDataMessagesSent = 1 <=> (Head(workerEvents).area = "sync" /\ sends)
       /\ Head(workerEvents).area # "sync" => relayLog'[Len(relayLog')].sent = <<>>

\* C32: one notification per change event. For one storage.onChanged event
\* of the sync area the service worker sends at most one SITE_DATA_DID_CHANGE
\* message however many site keys the event carries, and sends one exactly
\* when a key containing "." (other than the backup key) has an object for
\* its new value or was removed having held a truthy value; events of other
\* areas send nothing.
C32_OneNotificationPerEvent ==
  [][OneNotificationWhen(ObjectStoredOrTruthyRemoved(Head(workerEvents)))]_vars

\* The statement with the test "added, replaced by an object, or removed".
OneNotificationWhenAddedOrRemoved ==
  [][OneNotificationWhen(AddedReplacedByObjectOrRemoved(Head(workerEvents)))]_vars

\* The import of two site records was one event and sent one message; the
\* session area's event, carrying the hostname with an object, sent none.
C32_Witness ==
  /\ Len(relayLog) = 2
  /\ workerEvents = <<>>
  /\ settingsOps = 1
  /\ store[PageKey] = TwoSitesFile.data[PageKey]
  /\ store[OtherKey] = TwoSitesFile.data[OtherKey]
  /\ sessionFlag
  /\ \E i, j \in DOMAIN relayLog :
       /\ relayLog[i].sent = <<Plain("SITE_DATA_DID_CHANGE")>>
       /\ relayLog[j].sent = <<>>

\* ------------------------------------------------------------------------
\* C33
\* ------------------------------------------------------------------------

\* The initial read has completed: it resolved and the load went on to its
\* end, or it rejected.
InitialReadCompleted == loadPc = "done"

\* The initial read rejects.
InitialReadFails == loadPc = "awaitGet" /\ loadPc' = "done"

\* No mutation record has reached handleMutations and no timer was set.
NoReapplyScheduled ==
  /\ ~mutationQueued
  /\ timers = {}
  /\ deb.bursts = 0
  /\ deb.fires = 0

\* C33: observation always starts, once. Once the injector's initial read
\* has completed, with a record, without one, or with a storage error,
\* exactly one mutation observer observes the document, and it is started in
\* no other step; a failed read applies nothing and leaves the page, the
\* cache and the session flag as they were; and until the read has completed
\* no observer is active, so that the mutations made before it (those of
\* commands handled meanwhile) schedule no re-apply.
C33_ObservationStartsOnce ==
  /\ [](InitialReadCompleted => observer = 1)
  /\ [](~InitialReadCompleted => observer = 0 /\ NoReapplyScheduled)
  /\ [][/\ observer' # observer => ~InitialReadCompleted /\ InitialReadCompleted'
        /\ InitialReadFails => /\ dom' = dom
                               /\ cur' = cur
                               /\ hist' = hist
                               /\ sessionFlag' = sessionFlag
                               /\ observer' = 1]_vars

\* The read of a stored record failed; a command handled before that had
\* changed the page, which scheduled nothing; the observer is active.
C33_Witness ==
  /\ InitialReadCompleted
  /\ store[PageKey] # NoRecord
  /\ loadData = NoRecord
  /\ observer = 1
  /\ pageOps >= 1
  /\ hist.op = "apply"
  /\ hist.before # dom
  /\ cur = ArialLtr
  /\ NoReapplyScheduled

\* ------------------------------------------------------------------------
\* C34
\* ------------------------------------------------------------------------

\* C34: re-apply reaches quiescence. A run of the debounce timer's callback,
\* which re-applies the unchanged cached tuple, hands the injector's own
\* observer no mutation record, so that it schedules no further re-apply.
C34_ReapplyQuiescent ==
  [][TimerCallbackRuns => mutationQueued' = mutationQueued]_vars

\* The same for the tuples without a web font: nothing of the page changes
\* under the observer when they are re-applied.
ReapplyQuiescentWithoutWebFont ==
  [][(TimerCallbackRuns /\ LoadGoogleFont(<<>>, cur.font, cur.fontWeight).links = <<>>)
       => mutationQueued' = mutationQueued]_vars

\* Re-applies of one tuple have followed one another with no mutation of the
\* page's own in between: the second was scheduled by the first.
ReapplyFollowsReapply ==
  /\ deb.reapplies >= 2
  /\ deb.bursts >= 2
  /\ hist.op = "apply"
  /\ hist.prevOp = "apply"
  /\ hist.T = hist.prevT
  /\ mutationQueued

\* ------------------------------------------------------------------------
\* C35
\* ------------------------------------------------------------------------

\* The page carries something the injector put there.
InjectedPresent ==
  \/ dom.links # <<>>
  \/ dom.headStyles # <<>>
  \/ dom.dirHtml # Null
  \/ dom.dirBody # Null

\* C35: the cache matches the page. In every state the injector's
\* last-applied tuple is the tuple of its last run of apply, whose artifacts
\* the page carries (two empty tuples counting as equal), and it is not
\* empty while the page carries injected artifacts.
C35_CacheMatchesPage ==
  [](/\ hist.op = "apply"
          => (cur = hist.T \/ (TupleEmpty(cur) /\ TupleEmpty(hist.T)))
     /\ TupleEmpty(cur) => ~InjectedPresent)

\* As long as the initial read has not completed, or once it has found a
\* record to apply, the cache is the tuple of the last run.
CacheMatchesUnlessLoadClears ==
  [](store[PageKey] # NoRecord /\ AnyTruthy(RecordTuple(store[PageKey]))
       => (hist.op = "apply" => cur = hist.T))

\* The initial load has cleared the cache under the styles of a command.
CacheEmptyUnderStyles ==
  /\ loadPc = "done"
  /\ cur = NullTuple
  /\ hist.op = "apply"
  /\ hist.T = ArialLtr
  /\ dom.headStyles # <<>>

\* ------------------------------------------------------------------------
\* C36
\* ------------------------------------------------------------------------

\* Several edits were made in the popup, every save of theirs has written,
\* sent and ended, and no other editor has written.
PopupSavesFinished ==
  /\ Len(editLog) >= 2
  /\ saves = <<>>
  /\ settingsOps = 0
  /\ \A e \in DOMAIN editLog : editLog[e].sets = 1 /\ editLog[e].pushes = 1

\* C36: the last popup edit wins. Once the saves of several edits made in
\* one popup have all finished, the record stored for the active hostname is
\* the one the last edit wrote and the last message sent to the tab is the
\* one the last edit sent.
C36_LastPopupEditWins ==
  [](PopupSavesFinished
       => /\ store[tabUrl.host] = editLog[Len(editLog)].setValue
          /\ inbox # <<>>
          /\ inbox[Len(inbox)] = editLog[Len(editLog)].pushed)

\* Once the saves have finished the stored record and the last message are
\* those of one of the edits.
SomePopupEditWins ==
  [](PopupSavesFinished
       => /\ \E e \in DOMAIN editLog : store[tabUrl.host] = editLog[e].setValue
          /\ \E e \in DOMAIN editLog : inbox[Len(inbox)] = editLog[e].pushed)

\* The saves have finished; the store holds the first edit's record and the
\* page was last sent the second edit's tuple.
FirstEditStoredLastEditPushed ==
  /\ PopupSavesFinished
  /\ Len(editLog) = 2
  /\ editLog[1].setValue # editLog[2].setValue
  /\ store[tabUrl.host] = editLog[1].setValue
  /\ inbox[Len(inbox)] = editLog[2].pushed

\* The link of the apply that ran last is in the page and its load failed.
LatestLinkFailed ==
  /\ Len(dom.links) = 1
  /\ dom.links[1].state = "failed"

BtnRtlActive == controls.direction = Str("rtl")

BtnLtrActive == controls.direction = Str("ltr")

StoredDirections == {Empty, Str("rtl"), Str("ltr")}

\* This step is a click on a direction button.
DirectionButtonClicked == Len(editLog') = Len(editLog) + 1

\* The direction the click of this step hands to saveAndApplySettings.
ClickedDirection == saves'[Len(saves')].T.direction

\* The click of this step is a click on button d: the active button's
\* direction gives "", any other state gives d, and the buttons show it.
ClickOn(d) ==
  /\ ClickedDirection = (IF controls.direction = Str(d) THEN Empty ELSE Str(d))
  /\ controls'.direction = ClickedDirection

\* C38: the direction toggle. After any sequence of clicks on the RTL and
\* LTR buttons at most one of the two is active; a click on the button of
\* the active direction hands "" to the save and a click on the other button
\* hands that button's direction; the direction an edit writes to the store
\* is the one its click handed over, one of "", "rtl" and "ltr".
C38_DirectionToggle ==
  /\ [](~(BtnRtlActive /\ BtnLtrActive) /\ controls.direction \in StoredDirections)
  /\ [](\A e \in DOMAIN editLog :
          editLog[e].sets > 0
            => /\ editLog[e].setValue.direction = editLog[e].read.direction
               /\ editLog[e].setValue.direction \in StoredDirections)
  /\ [][DirectionButtonClicked => ClickOn("rtl") \/ ClickOn("ltr")]_vars

\* Three clicks: RTL on a popup showing no direction, RTL again, then LTR;
\* the store has taken "rtl", "" and "ltr" in turn.
C38_Witness ==
  /\ Len(editLog) = 3
  /\ saves = <<>>
  /\ editLog[1].setValue.direction = Str("rtl")
  /\ editLog[2].setValue.direction = Empty
  /\ editLog[3].setValue.direction = Str("ltr")
  /\ BtnLtrActive
  /\ store[PageKey].direction = Str("ltr")

\* The popup opened on an imported record with direction "auto": neither
\* button is active, and a click on RTL has stored "rtl".
ToggleFromImportedDirection ==
  /\ Len(editLog) = 1
  /\ editLog[1].sets = 1
  /\ editLog[1].setValue.font = Empty
  /\ editLog[1].setValue.direction = Str("rtl")
  /\ BtnRtlActive

\* The text of a number input reads as a number inside the field's
\* [min, max].
InsideMinMax(field, text) ==
  /\ text.t = "numstr"
  /\ text.n >= NumberInputConfig(field).min
  /\ text.n <= NumberInputConfig(field).max

\* The base value of a field, 16 for the font size and 0 for the others,
\* brought inside the field's [min, max].
ClampedBase(field) ==
  LET base == IF field = "fontSize" THEN 16 * Scale ELSE 0
      config == NumberInputConfig(field)
  IN  IF base < config.min THEN config.min
      ELSE IF base > config.max THEN config.max
      ELSE base

\* What a click on a stepper button of `field` leaves: the input inside
\* [min, max], the clamped base value when the input held no number, and a
\* save under way that carries the input's value.
StepperLeaves(field) ==
  /\ InsideMinMax(field, controls'[field])
  /\ NotANumber(controls[field]) => controls'[field].n = ClampedBase(field)
  /\ saves'[Len(saves')].T[field] = controls'[field]
  /\ \A other \in NumberFields \ {field} : controls'[other] = controls[other]

\* C39: stepper bounds. For each numeric field and every starting value
\* (empty, in range or out of range) a click on the field's stepper-up or
\* stepper-down button leaves the field inside the field's [min, max], and
\* an empty field at its base value (16 for the font size, 0 for the
\* others) clamped to [min, max]; the value the click's save writes to the
\* store is the one the click left in the field.
C39_StepperBounds ==
  /\ [][\A field \in NumberFields : \A up \in BOOLEAN :
          StepperClick(field, up) => StepperLeaves(field)]_vars
  /\ [](\A e \in DOMAIN editLog :
          editLog[e].sets > 0
            => RecordTuple(editLog[e].setValue) = editLog[e].read)

\* 100 was typed into the font size; a click on its stepper-down button
\* has left 72 in the field and in the store.
C39_Witness ==
  /\ Len(editLog) = 2
  /\ editLog[1].read.fontSize = NumStr(100 * Scale)
  /\ editLog[2].read.fontSize = NumStr(72 * Scale)
  /\ editLog[2].sets = 1
  /\ store[PageKey].fontSize = NumStr(72 * Scale)
  /\ controls.fontSize = NumStr(72 * Scale)

\* A click on stepper-up of the empty line height has stored 0.8.
StepperFromEmptyLineHeight ==
  /\ Len(editLog) = 1
  /\ editLog[1].sets = 1
  /\ store[PageKey].lineHeight = NumStr(800)
  /\ store[PageKey].fontSize = NumStr(18 * Scale)
====
